---- MODULE Spec2Model ----
(***************************************************************************)
(* Model of the reverse-tunnel edge of Certion-ReverseProxy.               *)
(*                                                                         *)
(* The repository holds two implementations of the edge: tunnels.py (the   *)
(* one app.py wires in) and tunnels_with_firewall.py.  The variable impl   *)
(* says which of the two modules a deployment runs; it is chosen in Init   *)
(* and never changes.  Every action is translated from one of the two      *)
(* files and is guarded by impl.                                           *)
(*                                                                         *)
(* Text (subdomains, hosts, paths) is a sequence of one-character strings. *)
(* Time is a discrete clock; one tick stands for 30 seconds.               *)
(***************************************************************************)
EXTENDS Integers, Sequences, FiniteSets, TLC

VARIABLES
    impl,               \* "tunnels" | "twf": the module that serves the edge
    projects,           \* store: project id -> row
    conn,               \* control connections (one tunnel_control call each)
    tunnels,            \* subdomain -> connection           (tunnels.py:30)
    tunnel_to_project,  \* subdomain -> project id           (tunnels.py:31)
    now,                \* the clock, in ticks
    pending_requests,   \* request id -> awaiter             (tunnels.py:32)
    hs,                 \* http_handler invocations
    cleanupStarted,     \* _cleanup_task_started   (tunnels_with_firewall.py:350)
    lastSweep,          \* when cleanup_task last woke
    lastEvent,          \* the last thing the edge did that a peer can observe
    rate_limit_store,   \* ip -> timestamps                  (tunnels.py:35)
    rate_limits,        \* ip -> {count, timestamp} (tunnels_with_firewall.py:40)
    passLog,            \* history: per ip, when check_rate_limit let a request pass
    fwRules,            \* store: ids of the FirewallRule rows
    fwCache,            \* _firewall_cache: project id -> rules, timestamp
    accessReqs,         \* store: the FirewallAccessRequest rows, by id
    api,                \* "projects" | "app": the module whose routes serve
    agents,             \* store: agent id -> row
    commands,           \* store: the Command rows, by id
    runtime,            \* store: project id -> pid, pending_action, last_started
    client,             \* client.py, one ProjectAgent process per agent
    running_processes,  \* agent a1: project id -> child process  (client.py:242)
    tunnel_threads,     \* agent a1: project id -> tunnel worker  (client.py:243)
    consecutive_errors, \* agent a1: failed transport calls in a row (client.py:247)
    agent_loop,         \* agent a1: where ProjectAgent.run stands
    publishing,         \* projects.py: publication requests between lookup and commit
    forwarding          \* agent a1: the tunnel worker's request loop (client.py:123)

regVars == <<projects, conn, tunnels, tunnel_to_project>>
proxyVars == <<now, pending_requests, hs, cleanupStarted, lastSweep, lastEvent>>
rateVars == <<rate_limit_store, rate_limits, passLog>>
fwVars == <<fwRules, fwCache, accessReqs>>
agentVars == <<running_processes, tunnel_threads, consecutive_errors, agent_loop>>
ctlVars == <<api, agents, commands, runtime, client, agentVars, publishing, forwarding>>
vars == <<impl, regVars, proxyVars, rateVars, fwVars, ctlVars>>

\* ------------------------------------------------------------------ bounds
NumConns == 2
NumHandlers == 2
MaxTime == 3
ProxyTime == 2
\* RATE_LIMIT is 100 in the source (tunnels.py:36, tunnels_with_firewall.py:41);
\* the model runs the same code with a small cap.
RATE_LIMIT == 2
MaxAccessReqs == 2
MaxCommands == 2
MaxRuns == 2
CmdTime == 1
LiveTime == 5
LastArrival == 1
QuietTime == 6

\* --------------------------------------------------------------- constants
None == "none"
NoSub == <<>>

Impls == {"tunnels", "twf"}
Agents == {"a1", "a2"}
Pids == {1, 2}
Conns == 1..NumConns

\* ------------------------------------------------------------ text helpers
LowerTable ==
    [c \in {"A", "U", "X", "a", "u", "x", "n", "y", "p", "-", " ", "_", ".", ":",
             "1", "2", "3", "8"} |->
        CASE c = "A" -> "a"
          [] c = "U" -> "u"
          [] c = "X" -> "x"
          [] OTHER -> c]

LowerChar(c) == IF c \in DOMAIN LowerTable THEN LowerTable[c] ELSE c

Lower(s) == [i \in 1..Len(s) |-> LowerChar(s[i])]

IsAllowedChar(c) == c \in {"a", "u", "p", "r", "o", "j", "e", "c", "t", "-", "1", "2", "3"}

ReplaceSpace(s) == [i \in 1..Len(s) |-> IF s[i] = " " THEN "-" ELSE s[i]]

KeepAllowed(s) == SelectSeq(s, IsAllowedChar)

RECURSIVE CollapseHyphens(_)
CollapseHyphens(s) ==
    IF Len(s) < 2 THEN s
    ELSE IF s[1] = "-" /\ s[2] = "-" THEN CollapseHyphens(Tail(s))
    ELSE <<s[1]>> \o CollapseHyphens(Tail(s))

RECURSIVE StripLeft(_)
StripLeft(s) ==
    IF s # <<>> /\ s[1] = "-" THEN StripLeft(Tail(s)) ELSE s

RECURSIVE StripRight(_)
StripRight(s) ==
    IF s # <<>> /\ s[Len(s)] = "-" THEN StripRight(SubSeq(s, 1, Len(s) - 1)) ELSE s

StripHyphens(s) == StripRight(StripLeft(s))

HasDoubleHyphen(s) == \E i \in 1..(Len(s) - 1) : s[i] = "-" /\ s[i + 1] = "-"

validate_subdomain_name(name) ==
    /\ name # <<>>
    /\ \A i \in 1..Len(name) : IsAllowedChar(name[i])
    /\ name[1] # "-"
    /\ name[Len(name)] # "-"
    /\ ~HasDoubleHyphen(name)

Digit(n) == IF n = 1 THEN "1" ELSE IF n = 2 THEN "2" ELSE "3"

\* ------------------------------------------------------------------ store
ProjectName == [p \in Pids |-> IF p = 1 THEN <<"a">> ELSE <<"A", " ">>]
UserName == [p \in Pids |-> <<"u">>]
ProjectOwnerAgent == [p \in Pids |-> IF p = 1 THEN "a1" ELSE "a2"]

SubdomainTaken(rows, s) == \E p \in Pids : rows[p].exists /\ rows[p].subdomain = s

BaseSubdomain(project_name, username) ==
    LET raw == Lower(project_name \o <<"-">> \o username)
        norm == StripHyphens(CollapseHyphens(KeepAllowed(ReplaceSpace(raw))))
    IN  IF validate_subdomain_name(norm) THEN norm
        ELSE KeepAllowed(Lower(<<"p", "r", "o", "j", "e", "c", "t", "-">> \o username))

RECURSIVE FirstFree(_, _, _)
FirstFree(rows, original, counter) ==
    LET cand == original \o <<"-", Digit(counter)>>
    IN  IF SubdomainTaken(rows, cand) THEN FirstFree(rows, original, counter + 1) ELSE cand

generate_subdomain(rows, project_name, username) ==
    LET original == BaseSubdomain(project_name, username)
    IN  IF SubdomainTaken(rows, original) THEN FirstFree(rows, original, 1) ELSE original

ApiKeys == {"", "k1", "k2", "bad"}

verify_api_key(api_key, storeFault) ==
    IF api_key = "" \/ storeFault THEN None
    ELSE IF api_key = "k1" THEN "a1"
    ELSE IF api_key = "k2" THEN "a2"
    ELSE None

ProjectIdParams == {"", "1", "2", "x"}

IsIntText(t) == t \in {"1", "2"}
IntOf(t) == IF t = "1" THEN 1 ELSE 2

\* ----------------------------------------------------------- map helpers
Put(f, k, v) == [x \in (DOMAIN f) \cup {k} |-> IF x = k THEN v ELSE f[x]]
Drop(f, k) == [x \in (DOMAIN f) \ {k} |-> f[x]]
EmptyMap == [x \in {} |-> None]

\* ------------------------------------------------------------------- Init
NewConn == [pc |-> "new", pid |-> 0, agent |-> None, owner |-> None,
            sub |-> NoSub, reply |-> None]

InitRegistry ==
    /\ impl \in Impls
    /\ projects = [p \in Pids |->
                     [exists |-> TRUE, agent_id |-> ProjectOwnerAgent[p],
                      subdomain |-> NoSub, status |-> "stopped"]]
    /\ conn = [c \in Conns |-> NewConn]
    /\ tunnels = EmptyMap
    /\ tunnel_to_project = EmptyMap

Ids == {"r1", "r2"}
Ips == {"ip1", "ip2"}
Handlers == 1..NumHandlers

\* in ticks of 30 s: 30 s, 60 s, 60 s, 60 s
REQUEST_TIMEOUT == 1
RATE_WINDOW == 2
CLEANUP_PERIOD == 2
CACHE_EXPIRATION == 2

NoResponse == [request_id |-> None, status |-> 0]

\* fw: what the firewall evaluation of the request logged ("clean" when
\* nothing, "lookup_failed", "raised")
IdleHandler == [pc |-> "idle", rid |-> None, ws |-> 0, event |-> FALSE, waitStart |-> 0,
                ip |-> None, method |-> None, path |-> <<>>, fw |-> None]

\* kind: "response" (http_handler returned) or "dropped" (the reader loop
\* took an http_response frame that no awaiter was waiting for)
NoEvent == [kind |-> None, status |-> 0, note |-> None, rid |-> None,
            ip |-> None, method |-> None, path |-> <<>>, fw |-> None, rule |-> 0,
            target |-> 0, list |-> <<>>, shown |-> <<>>, host |-> <<>>,
            port |-> 0, project |-> 0]

InitProxy ==
    /\ now = 0
    /\ pending_requests = EmptyMap
    /\ hs = [h \in Handlers |-> IdleHandler]
    /\ cleanupStarted = FALSE
    /\ lastSweep = 0
    /\ lastEvent = NoEvent

InitRate ==
    /\ rate_limit_store = EmptyMap
    /\ rate_limits = EmptyMap
    /\ passLog = [ip \in Ips |-> <<>>]

InitFirewall ==
    /\ fwRules = {}
    /\ fwCache = EmptyMap
    /\ accessReqs = <<>>

\* projects.py and app.py both define the management and agent routes
Apis == {"projects", "app"}
Actions == {"start", "stop", "restart"}
\* process ids an agent reports; 0 stands for None
ClientPids == {7, 8}

\* in ticks of 30 s: the agent's heartbeat_interval (30 s) and the age at
\* which get_agents marks an agent offline (2 minutes)
HEARTBEAT_INTERVAL == 1
OFFLINE_AFTER == 4
\* ProjectAgent.max_consecutive_errors
MAX_CONSECUTIVE_ERRORS == 5
\* the model stops counting errors here
MaxErrors == 8
\* commands one poll brings
MaxTodo == 2

InitStore ==
    /\ agents = [a \in Agents |-> [exists |-> TRUE, status |-> "offline",
                                   last_heartbeat |-> -1]]
    /\ commands = <<>>
    /\ runtime = [p \in Pids |-> [pid |-> 0, pending_action |-> None,
                                  last_started |-> -1]]
    /\ client = [a \in Agents |-> [inbox |-> <<>>, runs |-> <<>>]]
    /\ running_processes = [p \in Pids |-> "none"]
    /\ tunnel_threads = [p \in Pids |-> [state |-> "none", c |-> 0]]
    /\ consecutive_errors = 0
    /\ agent_loop = [pc |-> "connect", todo |-> 0]
    /\ publishing = [p \in Pids |-> NoSub]
    /\ forwarding = [state |-> "idle", rid |-> None, got |-> <<>>, sent |-> <<>>]

\* app.py registers the blueprint of projects.py before it defines its own
\* routes, so the routes of projects.py are the ones that serve
Init ==
    /\ InitRegistry /\ InitProxy /\ InitRate /\ InitFirewall
    /\ api = "projects"
    /\ InitStore

\* ------------------------------------------- tunnel_control, tunnels.py
HandshakeFaults == {"none", "prepare", "verify", "query", "commit_subdomain", "commit_status"}

\* mutant: the lookup forgets the agent_id filter
QueryProjectAnyAgent(rows, pid, agent) ==
    pid \in Pids /\ rows[pid].exists

\* db.query(project_model).filter_by(id=project_id, agent_id=agent.id).first()
QueryProjectForAgent(rows, pid, agent) ==
    pid \in Pids /\ rows[pid].exists /\ rows[pid].agent_id = agent

\* if subdomain in tunnels
SubdomainOccupied(tuns, s) == s \in DOMAIN tuns

OwnerInStore(rows, pid) ==
    IF pid \in Pids /\ rows[pid].exists THEN rows[pid].agent_id ELSE None

\* an attempt that ends before registration: what the peer is sent, then close
Reject(c, reply) ==
    conn' = [conn EXCEPT ![c] = [NewConn EXCEPT !.pc = "closed", !.reply = reply]]

TunnelControl(c, project_id, api_key, fault) ==
    /\ impl = "tunnels"
    /\ conn[c].pc = "new"
    /\ LET agent == verify_api_key(api_key, fault = "verify")
           pid == IF IsIntText(project_id) THEN IntOf(project_id) ELSE 0
           found == QueryProjectForAgent(projects, pid, agent)
           fresh == found /\ projects[pid].subdomain = NoSub
           sub == IF ~found THEN NoSub
                  ELSE IF fresh
                       THEN generate_subdomain(projects, ProjectName[pid], UserName[pid])
                       ELSE projects[pid].subdomain
           rows1 == IF fresh THEN [projects EXCEPT ![pid].subdomain = sub] ELSE projects
       IN  IF fault = "prepare"
           THEN /\ Reject(c, "prepare_failed")
                /\ UNCHANGED <<projects, tunnels, tunnel_to_project>>
           ELSE IF project_id = "" \/ api_key = ""
           THEN /\ Reject(c, "error_missing")
                /\ UNCHANGED <<projects, tunnels, tunnel_to_project>>
           ELSE IF agent = None
           THEN /\ Reject(c, "error_invalid_key")
                /\ UNCHANGED <<projects, tunnels, tunnel_to_project>>
           ELSE IF ~IsIntText(project_id)
           THEN /\ Reject(c, "error_invalid_project_id")
                /\ UNCHANGED <<projects, tunnels, tunnel_to_project>>
           ELSE IF fault = "query"
           THEN /\ Reject(c, "error_database")
                /\ UNCHANGED <<projects, tunnels, tunnel_to_project>>
           ELSE IF ~found
           THEN /\ Reject(c, "error_not_found")
                /\ UNCHANGED <<projects, tunnels, tunnel_to_project>>
           ELSE IF fresh /\ fault = "commit_subdomain"
           THEN /\ Reject(c, "error_database")
                /\ UNCHANGED <<projects, tunnels, tunnel_to_project>>
           ELSE IF SubdomainOccupied(tunnels, sub)
           THEN /\ Reject(c, "error_exists")
                /\ projects' = rows1
                /\ UNCHANGED <<tunnels, tunnel_to_project>>
           ELSE IF fault = "commit_status"
           THEN /\ Reject(c, "error_database")
                /\ projects' = rows1
                /\ UNCHANGED <<tunnels, tunnel_to_project>>
           ELSE /\ projects' = [rows1 EXCEPT ![pid].status = "running"]
                /\ tunnels' = Put(tunnels, sub, c)
                /\ tunnel_to_project' = Put(tunnel_to_project, sub, pid)
                /\ conn' = [conn EXCEPT ![c] =
                              [pc |-> "open", pid |-> pid, agent |-> agent,
                               owner |-> OwnerInStore(projects, pid),
                               sub |-> sub, reply |-> "connected"]]
    /\ UNCHANGED <<impl, ctlVars, proxyVars, rateVars, fwVars>>

\* reader loop left (error, close frame, exception): the finally block
TunnelClose(c, storeFault) ==
    /\ impl = "tunnels"
    /\ conn[c].pc = "open"
    /\ tunnels' = Drop(tunnels, conn[c].sub)
    /\ tunnel_to_project' = Drop(tunnel_to_project, conn[c].sub)
    /\ projects' = IF ~storeFault /\ projects[conn[c].pid].exists
                   THEN [projects EXCEPT ![conn[c].pid].status = "stopped"]
                   ELSE projects
    /\ conn' = [conn EXCEPT ![c].pc = "closed"]
    /\ UNCHANGED <<impl, ctlVars, proxyVars, rateVars, fwVars>>

\* ------------------------------- tunnel_control, tunnels_with_firewall.py
TwfFaults == {"none", "verify", "query", "commit_subdomain", "commit_status"}

\* if project.agent_id != agent.id: return 403
OwnedByAgent(rows, pid, agent) == rows[pid].agent_id = agent

TwfHandshake(c, project_id, api_key, fault) ==
    /\ impl = "twf"
    /\ conn[c].pc = "new"
    /\ LET agent == verify_api_key(api_key, fault = "verify")
           pid == IF IsIntText(project_id) THEN IntOf(project_id) ELSE 0
           found == pid \in Pids /\ projects[pid].exists
           fresh == found /\ projects[pid].subdomain = NoSub
           sub == IF ~found THEN NoSub
                  ELSE IF fresh
                       THEN generate_subdomain(projects, ProjectName[pid], UserName[pid])
                       ELSE projects[pid].subdomain
           rows1 == IF fresh THEN [projects EXCEPT ![pid].subdomain = sub] ELSE projects
       IN  IF project_id = "" \/ api_key = ""
           THEN /\ Reject(c, "http_400")
                /\ UNCHANGED projects
           ELSE IF agent = None
           THEN /\ Reject(c, "http_401")
                /\ UNCHANGED projects
           ELSE IF ~IsIntText(project_id)
           THEN /\ Reject(c, "http_400")
                /\ UNCHANGED projects
           ELSE IF fault = "query"
           THEN /\ Reject(c, "http_500")
                /\ UNCHANGED projects
           ELSE IF ~found
           THEN /\ Reject(c, "http_404")
                /\ UNCHANGED projects
           ELSE IF ~OwnedByAgent(projects, pid, agent)
           THEN /\ Reject(c, "http_403")
                /\ UNCHANGED projects
           ELSE IF fresh /\ fault = "commit_subdomain"
           THEN /\ Reject(c, "http_500")
                /\ UNCHANGED projects
           ELSE IF fault = "commit_status"
           THEN /\ Reject(c, "http_500")
                /\ projects' = rows1
           ELSE /\ projects' = [rows1 EXCEPT ![pid].status = "running"]
                /\ conn' = [conn EXCEPT ![c] =
                              [pc |-> "prepare", pid |-> pid, agent |-> agent,
                               owner |-> OwnerInStore(projects, pid),
                               sub |-> sub, reply |-> None]]
    /\ UNCHANGED <<impl, ctlVars, tunnels, tunnel_to_project, proxyVars, rateVars, fwVars>>

\* await ws.prepare(request) raises: the handler ends before registering
TwfPrepareFail(c) ==
    /\ impl = "twf"
    /\ conn[c].pc = "prepare"
    /\ conn' = [conn EXCEPT ![c].pc = "closed", ![c].reply = "prepare_failed"]
    /\ UNCHANGED <<impl, ctlVars, projects, tunnels, tunnel_to_project, proxyVars, rateVars, fwVars>>

\* ws.prepare returned: register, then send the confirmation (outside any try)
TwfRegister(c, sendOk) ==
    /\ impl = "twf"
    /\ conn[c].pc = "prepare"
    /\ tunnels' = Put(tunnels, conn[c].sub, c)
    /\ tunnel_to_project' = Put(tunnel_to_project, conn[c].sub, conn[c].pid)
    /\ conn' = [conn EXCEPT ![c].pc = IF sendOk THEN "open" ELSE "closed",
                            ![c].reply = IF sendOk THEN "connected" ELSE "send_failed"]
    /\ UNCHANGED <<impl, ctlVars, projects, proxyVars, rateVars, fwVars>>

\* mutant: the finally block forgets the second map
TwfTunnelCloseOneMap(c) ==
    /\ impl = "twf"
    /\ conn[c].pc = "open"
    /\ tunnels' = Drop(tunnels, conn[c].sub)
    /\ conn' = [conn EXCEPT ![c].pc = "closed"]
    /\ UNCHANGED <<impl, ctlVars, projects, tunnel_to_project, proxyVars, rateVars, fwVars>>

\* the finally block of tunnel_control: both maps lose the subdomain
TwfTunnelClose(c) ==
    /\ impl = "twf"
    /\ conn[c].pc = "open"
    /\ tunnels' = Drop(tunnels, conn[c].sub)
    /\ tunnel_to_project' = Drop(tunnel_to_project, conn[c].sub)
    /\ conn' = [conn EXCEPT ![c].pc = "closed"]
    /\ UNCHANGED <<impl, ctlVars, projects, proxyVars, rateVars, fwVars>>

\* ------------------------------------------------------------- the firewall
\* the FirewallRule rows an operator may create; value is rule.value, a
\* method name for method rules and a path or regex text otherwise
RuleCatalog ==
    [r \in 1..6 |->
        CASE r = 1 -> [project_id |-> 1, rule_type |-> "method", method |-> "POST",
                       text |-> <<>>]
          [] r = 2 -> [project_id |-> 1, rule_type |-> "path", method |-> None,
                       text |-> <<"/", "a">>]
          [] r = 3 -> [project_id |-> 1, rule_type |-> "pattern", method |-> None,
                       text |-> <<"/", ".", "p">>]
          [] r = 4 -> [project_id |-> 1, rule_type |-> "pattern", method |-> None,
                       text |-> <<"(", "/">>]
          [] r = 5 -> [project_id |-> 1, rule_type |-> "pattern", method |-> None,
                       text |-> <<"/", "a">>]
          [] r = 6 -> [project_id |-> 1, rule_type |-> "method", method |-> "get",
                       text |-> <<>>]]

RuleIds == DOMAIN RuleCatalog

\* secrets.token_hex(8): 64 random bits, an id no request in flight holds
FreshId(rid) ==
    /\ rid \notin DOMAIN pending_requests
    /\ \A h \in Handlers : hs[h].rid # rid

Methods == {"GET", "POST"}
Paths == { <<"/">>, <<"/", "a">>, <<"/", "a", "/", "p">>, <<"/", "a", "p">> }

UpperTable == [m \in {"GET", "get", "POST", "post"} |->
                 IF m \in {"GET", "get"} THEN "GET" ELSE "POST"]
Upper(m) == IF m \in DOMAIN UpperTable THEN UpperTable[m] ELSE m

StartsWith(s, prefix) == Len(s) >= Len(prefix) /\ SubSeq(s, 1, Len(prefix)) = prefix

\* re.compile raises re.error on an unbalanced parenthesis
PatternValid(pattern) == \A i \in 1..Len(pattern) : pattern[i] # "("

\* re.match(pattern, path): anchored at the start, "." matches any character
ReMatch(pattern, path) ==
    /\ Len(pattern) <= Len(path)
    /\ \A i \in 1..Len(pattern) : pattern[i] = "." \/ pattern[i] = path[i]

MinOf(S) == CHOOSE x \in S : \A y \in S : x <= y

\* mutant: an entry is served however old it is
CacheFreshForever(cache, project_id, t) == project_id \in DOMAIN cache

\* firewall_cache.get_cached_rules: None when absent or older than the TTL
CacheFresh(cache, project_id, t) ==
    project_id \in DOMAIN cache /\ ~(t - cache[project_id].timestamp > CACHE_EXPIRATION)

\* firewall_cache.get_cached_rules with its force_reload argument, which no
\* caller sets; found = FALSE stands for the None it returns
get_cached_rules(cache, project_id, force_reload, t) ==
    IF force_reload \/ ~CacheFresh(cache, project_id, t)
    THEN [found |-> FALSE, rules |-> {}]
    ELSE [found |-> TRUE, rules |-> cache[project_id].rules]

\* mutant: the approval is looked up without the method
ApprovedForAnyMethod(reqs, project_id, ip, method, path, t, queryFault) ==
    /\ ~queryFault
    /\ \E i \in 1..Len(reqs) :
          /\ reqs[i].project_id = project_id
          /\ reqs[i].ip_address = ip
          /\ reqs[i].path = path
          /\ reqs[i].status = "approved"
          /\ reqs[i].approved_until > t

\* firewall_access.is_ip_temporarily_approved; a failing query is caught
\* inside the function and reads as "not approved"
is_ip_temporarily_approved(reqs, project_id, ip, method, path, t, queryFault) ==
    /\ ~queryFault
    /\ \E i \in 1..Len(reqs) :
          /\ reqs[i].project_id = project_id
          /\ reqs[i].ip_address = ip
          /\ reqs[i].method = method
          /\ reqs[i].path = path
          /\ reqs[i].status = "approved"
          /\ reqs[i].approved_until > t

\* mutant: the rule with the lowest id among all matching rules is cited
LowestMatchingRule(rules, method, path) ==
    LET hits == {r \in rules :
                    \/ /\ RuleCatalog[r].rule_type = "method"
                       /\ Upper(method) = Upper(RuleCatalog[r].method)
                    \/ /\ RuleCatalog[r].rule_type = "path"
                       /\ \/ path = RuleCatalog[r].text
                          \/ StartsWith(path, RuleCatalog[r].text \o <<"/">>)
                    \/ /\ RuleCatalog[r].rule_type = "pattern"
                       /\ PatternValid(RuleCatalog[r].text)
                       /\ ReMatch(RuleCatalog[r].text, path)}
    IN  IF hits # {} THEN MinOf(hits) ELSE 0

\* the rule a request is blocked by, 0 when none: method rules first, then
\* path rules, then pattern rules, each class in store order
FirstMatchingRule(rules, method, path) ==
    LET methodHits == {r \in rules : /\ RuleCatalog[r].rule_type = "method"
                                     /\ Upper(method) = Upper(RuleCatalog[r].method)}
        pathHits == {r \in rules :
                        /\ RuleCatalog[r].rule_type = "path"
                        /\ \/ path = RuleCatalog[r].text
                           \/ StartsWith(path, RuleCatalog[r].text \o <<"/">>)}
        patternHits == {r \in rules : /\ RuleCatalog[r].rule_type = "pattern"
                                      /\ PatternValid(RuleCatalog[r].text)
                                      /\ ReMatch(RuleCatalog[r].text, path)}
    IN  IF methodHits # {} THEN MinOf(methodHits)
        ELSE IF pathHits # {} THEN MinOf(pathHits)
        ELSE IF patternHits # {} THEN MinOf(patternHits)
        ELSE 0

FirewallFaults == {"none", "approval_query", "rules", "record"}

\* mutant: the row is stored as already approved
NewAccessRequestApproved(project_id, ip, method, path) ==
    [project_id |-> project_id, ip_address |-> ip, method |-> method, path |-> path,
     status |-> "approved", approved_until |-> 0]

\* the row create_access_request adds (rule_id and block_reason left out)
NewAccessRequest(project_id, ip, method, path) ==
    [project_id |-> project_id, ip_address |-> ip, method |-> method, path |-> path,
     status |-> "pending", approved_until |-> 0]

\* firewall.is_request_blocked: the rule cited (0: not blocked) and the rule
\* cache it leaves
firewall_is_request_blocked(project_id, method, path, t) ==
    LET hit == CacheFresh(fwCache, project_id, t)
        loaded == {r \in fwRules : RuleCatalog[r].project_id = project_id}
        rules == IF hit THEN fwCache[project_id].rules ELSE loaded
    IN  [rule |-> FirstMatchingRule(rules, method, path),
         cache |-> IF hit THEN fwCache
                   ELSE Put(fwCache, project_id, [rules |-> loaded, timestamp |-> t])]

\* firewall_aiohttp.is_request_blocked with everything it changes: the rule
\* cache and the access request table; log is what it wrote to the error log
is_request_blocked(project_id, method, path, ip, t, fault) ==
    LET lookup == IF fault = "approval_query" THEN "lookup_failed" ELSE "clean"
        same == [blocked |-> FALSE, rule |-> 0, cache |-> fwCache, reqs |-> accessReqs,
                 log |-> lookup]
        hit == CacheFresh(fwCache, project_id, t)
        loaded == {r \in fwRules : RuleCatalog[r].project_id = project_id}
        rules == IF hit THEN fwCache[project_id].rules ELSE loaded
        cache1 == IF hit THEN fwCache
                  ELSE Put(fwCache, project_id, [rules |-> loaded, timestamp |-> t])
        rule == FirstMatchingRule(rules, method, path)
    IN  IF /\ ip # None
           /\ is_ip_temporarily_approved(accessReqs, project_id, ip, method, path, t,
                                         fault = "approval_query")
        THEN same
        ELSE IF ~hit /\ fault = "rules" THEN [same EXCEPT !.log = "raised"]
        ELSE IF rule = 0 THEN [same EXCEPT !.cache = cache1]
        ELSE IF ip = None
             THEN [same EXCEPT !.blocked = TRUE, !.rule = rule, !.cache = cache1]
        ELSE IF fault = "record" THEN [same EXCEPT !.cache = cache1, !.log = "raised"]
        ELSE [blocked |-> TRUE, rule |-> rule, cache |-> cache1,
              reqs |-> Append(accessReqs,
                              NewAccessRequest(project_id, ip, method, path)),
              log |-> lookup]

\* ------------------------------------------------- http_handler, both files
DomainName == <<"x">>

Hosts == { <<"a", "-", "u", ".", "x">>,
           <<"A", "-", "U", "-", "1", ".", "X", ":", "8">>,
           <<"n", ".", "x">>,
           <<"x">>,
           <<"y">> }

RECURSIVE BeforeColon(_)
BeforeColon(s) ==
    IF s = <<>> \/ s[1] = ":" THEN <<>> ELSE <<s[1]>> \o BeforeColon(Tail(s))

EndsWith(s, suffix) ==
    Len(s) >= Len(suffix) /\ SubSeq(s, Len(s) - Len(suffix) + 1, Len(s)) = suffix

\* subdomain_handling.extract_subdomain: None for the bare domain,
\* "__invalid__" for a foreign host
extract_subdomain(host, domain) ==
    LET h == BeforeColon(Lower(host))
    IN  IF EndsWith(h, <<".">> \o domain)
        THEN [kind |-> "sub", name |-> SubSeq(h, 1, Len(h) - Len(domain) - 1)]
        ELSE IF h = domain THEN [kind |-> "root", name |-> <<>>]
        ELSE [kind |-> "invalid", name |-> <<>>]

\* tunnels.py check_rate_limit: a sliding window of timestamps
KeepRecent(ts, t) == SelectSeq(ts, LAMBDA x : t - x < RATE_WINDOW)

check_rate_limit(store, ip, t) ==
    LET old == IF ip \in DOMAIN store THEN store[ip] ELSE <<>>
        kept == KeepRecent(old, t)
    IN  IF Len(kept) >= RATE_LIMIT
        THEN [ok |-> FALSE, store |-> Put(store, ip, kept)]
        ELSE [ok |-> TRUE, store |-> Put(store, ip, Append(kept, t))]

\* tunnels_with_firewall.py check_rate_limit: a counter restarted when the
\* window that began at its timestamp is over
twf_check_rate_limit(store, ip, t) ==
    IF ip \notin DOMAIN store
    THEN [ok |-> TRUE, store |-> Put(store, ip, [count |-> 1, timestamp |-> t])]
    ELSE IF t - store[ip].timestamp > RATE_WINDOW
    THEN [ok |-> TRUE, store |-> Put(store, ip, [count |-> 1, timestamp |-> t])]
    ELSE LET n == store[ip].count + 1
         IN  [ok |-> n <= RATE_LIMIT,
              store |-> Put(store, ip, [count |-> n, timestamp |-> store[ip].timestamp])]

\* the counter of tunnels_with_firewall.py grows with every request of a
\* window; the model stops counting two past the limit
CounterRoom(ip) ==
    (impl = "twf" /\ ip \in DOMAIN rate_limits /\ now - rate_limits[ip].timestamp <= RATE_WINDOW)
        => rate_limits[ip].count <= RATE_LIMIT + 1

\* http_handler returns before it registered an awaiter
Respond(h, ip, status, note) ==
    /\ hs' = [hs EXCEPT ![h] = IdleHandler]
    /\ lastEvent' = [NoEvent EXCEPT !.kind = "response", !.status = status,
                                    !.note = note, !.ip = ip]

\* http_handler returns from inside its try block
Finish(h, status, note) ==
    /\ hs' = [hs EXCEPT ![h] = IdleHandler]
    /\ lastEvent' = [NoEvent EXCEPT !.kind = "response", !.status = status,
                                    !.note = note]

\* ------------------------------------------- management API, projects.py
DeleteProject(p) ==
    /\ projects[p].exists
    /\ projects' = [projects EXCEPT ![p] =
                      [exists |-> FALSE, agent_id |-> None,
                       subdomain |-> NoSub, status |-> "stopped"]]
    /\ fwRules' = {r \in fwRules : RuleCatalog[r].project_id # p}
    /\ accessReqs' = SelectSeq(accessReqs, LAMBDA a : a.project_id # p)
    /\ commands' = [c \in DOMAIN commands |->
                      IF commands[c].project_id = p
                      THEN [commands[c] EXCEPT !.status = "deleted"]
                      ELSE commands[c]]
    /\ runtime' = [runtime EXCEPT ![p] = [pid |-> 0, pending_action |-> None,
                                          last_started |-> -1]]
    /\ UNCHANGED <<impl, api, agents, client, conn, tunnels, tunnel_to_project,
                   proxyVars, rateVars, fwCache, agentVars, publishing, forwarding>>

\* ------------------------------------------------ http_handler, the steps
LookupFaults == {"none", "project_lookup"}

\* http_handler from its first line to its first await that can block: the
\* request is answered at once, or an awaiter is registered under rid
HttpStart(h, ip, host, method, path, rid, dbFault, fwFault) ==
    /\ hs[h].pc = "idle"
    /\ FreshId(rid)
    /\ CounterRoom(ip)
    /\ LET rl == IF impl = "tunnels" THEN check_rate_limit(rate_limit_store, ip, now)
                 ELSE twf_check_rate_limit(rate_limits, ip, now)
           sd == extract_subdomain(host, DomainName)
           live == sd.kind = "sub" /\ sd.name \in DOMAIN tunnels
           project_id == IF live /\ sd.name \in DOMAIN tunnel_to_project
                         THEN tunnel_to_project[sd.name] ELSE 0
           fw == IF impl = "twf" /\ project_id # 0
                 THEN is_request_blocked(project_id, method, path, ip, now, fwFault)
                 ELSE [blocked |-> FALSE, rule |-> 0, cache |-> fwCache,
                       reqs |-> accessReqs, log |-> None]
           answer(status, note) ==
               /\ Respond(h, IF status = 429 THEN ip ELSE None, status, note)
               /\ UNCHANGED <<pending_requests, fwVars>>
       IN  /\ Len(fw.reqs) <= MaxAccessReqs
           /\ IF impl = "tunnels"
              THEN rate_limit_store' = rl.store /\ UNCHANGED rate_limits
              ELSE rate_limits' = rl.store /\ UNCHANGED rate_limit_store
           /\ passLog' = [passLog EXCEPT ![ip] =
                            IF rl.ok THEN Append(KeepRecent(@, now), now)
                            ELSE KeepRecent(@, now)]
           /\ cleanupStarted' = (cleanupStarted \/ impl = "twf")
           /\ lastSweep' = IF impl = "twf" /\ ~cleanupStarted THEN now ELSE lastSweep
           /\ IF ~rl.ok THEN answer(429, "rate_limited")
              ELSE IF sd.kind = "invalid" THEN answer(404, "invalid_domain")
              ELSE IF sd.kind = "root" THEN answer(200, "status_page")
              ELSE IF ~live /\ dbFault = "project_lookup" THEN answer(500, "unhandled")
              ELSE IF ~live /\ SubdomainTaken(projects, sd.name)
                   THEN answer(503, "tunnel_inactive")
              ELSE IF ~live THEN answer(404, "tunnel_not_found")
              ELSE IF impl = "twf" /\ project_id = 0 THEN answer(500, "no_project_id")
              ELSE IF fw.blocked
                   THEN /\ hs' = [hs EXCEPT ![h] = IdleHandler]
                        /\ lastEvent' = [NoEvent EXCEPT
                                            !.kind = "response", !.status = 403,
                                            !.note = "firewall_blocked", !.ip = ip,
                                            !.method = method, !.path = path,
                                            !.fw = fw.log, !.rule = fw.rule]
                        /\ fwCache' = fw.cache
                        /\ accessReqs' = fw.reqs
                        /\ UNCHANGED <<pending_requests, fwRules>>
              ELSE /\ pending_requests' =
                         Put(pending_requests, rid,
                             [event |-> h, response |-> NoResponse, timestamp |-> now])
                   /\ hs' = [hs EXCEPT ![h] =
                               [IdleHandler EXCEPT !.pc = "reading", !.rid = rid,
                                                   !.ws = tunnels[sd.name],
                                                   !.ip = ip, !.method = method,
                                                   !.path = path, !.fw = fw.log]]
                   /\ fwCache' = fw.cache
                   /\ accessReqs' = fw.reqs
                   /\ UNCHANGED <<fwRules, lastEvent>>
    /\ UNCHANGED <<impl, ctlVars, regVars, now>>

\* mutant: the handler returns without its cleanup
KeepAwaiter(h) == UNCHANGED pending_requests

\* finally: pending_requests.pop(request_id, None)
PopAwaiter(h) == pending_requests' = Drop(pending_requests, hs[h].rid)

SendOutcomes == {"sent", "timeout", "error"}

\* the body is read and the http_request frame is written to the tunnel
HttpSend(h, outcome) ==
    /\ hs[h].pc = "reading"
    /\ outcome = "sent" => conn[hs[h].ws].pc = "open"
    /\ IF outcome = "sent"
       THEN /\ hs' = [hs EXCEPT ![h].pc = "waiting", ![h].waitStart = now]
            /\ UNCHANGED <<pending_requests, lastEvent>>
       ELSE /\ Finish(h, IF outcome = "timeout" THEN 504 ELSE 502,
                      IF outcome = "timeout" THEN "send_timeout" ELSE "tunnel_error")
            /\ PopAwaiter(h)
    /\ UNCHANGED <<impl, ctlVars, regVars, now, cleanupStarted, lastSweep, rateVars, fwVars>>

StatusTexts == {200, -1}

\* mutant: the response is written into every awaiter
StoreResponseEverywhere(pend, request_id, status) ==
    [r \in DOMAIN pend |->
        [pend[r] EXCEPT !.response = [request_id |-> request_id, status |-> status]]]

\* pending_requests[request_id]['response'] = data
StoreResponse(pend, request_id, status) ==
    [pend EXCEPT ![request_id].response = [request_id |-> request_id, status |-> status]]

\* the reader loop of tunnel_control takes one http_response frame; status -1
\* stands for a status that int() rejects
TunnelMessage(c, request_id, status) ==
    /\ conn[c].pc = "open"
    /\ IF request_id \in DOMAIN pending_requests
       THEN /\ UNCHANGED lastEvent
            /\ pending_requests' = StoreResponse(pending_requests, request_id, status)
            /\ hs' = [hs EXCEPT ![pending_requests[request_id].event].event = TRUE]
       ELSE /\ lastEvent' = [NoEvent EXCEPT !.kind = "dropped", !.rid = request_id]
            /\ UNCHANGED <<pending_requests, hs>>
    /\ UNCHANGED <<impl, ctlVars, regVars, now, cleanupStarted, lastSweep, rateVars, fwVars>>

FrameDefects == {"undecodable", "wrong_shape", "wrong_type"}

\* the reader loop takes a frame it cannot use: loads() raises, data.get
\* raises on a frame that is not an object, or the type is none it knows; the
\* except clause inside the loop logs and the loop goes on
TunnelBadFrame(c, defect) ==
    /\ conn[c].pc = "open"
    /\ lastEvent' = [NoEvent EXCEPT !.kind = "bad_frame", !.note = defect,
                                    !.target = c]
    /\ UNCHANGED <<impl, ctlVars, regVars, now, pending_requests, hs, cleanupStarted,
                   lastSweep, rateVars, fwVars>>

\* event.wait() returned: the response is read from the awaiter and rebuilt
HttpWake(h) ==
    /\ hs[h].pc = "waiting"
    /\ hs[h].event
    /\ LET rid == hs[h].rid
           response_data == IF rid \in DOMAIN pending_requests
                            THEN pending_requests[rid].response ELSE NoResponse
       IN  IF rid \notin DOMAIN pending_requests
           THEN Finish(h, 502, "tunnel_error")
           ELSE IF response_data = NoResponse
           THEN Finish(h, 502, "no_response")
           ELSE IF response_data.status = -1
           THEN Finish(h, 502, "tunnel_error")
           ELSE Finish(h, response_data.status, "ok")
    /\ PopAwaiter(h)
    /\ UNCHANGED <<impl, ctlVars, regVars, now, cleanupStarted, lastSweep, rateVars, fwVars>>

\* mutant: the wait has no timeout
TimedOutNever(h) == FALSE

\* mutant: the wait is given up at once
TimedOutAtOnce(h) == TRUE

\* the timeout of asyncio.wait_for(event.wait(), timeout=REQUEST_TIMEOUT)
TimedOut(h) == now - hs[h].waitStart >= REQUEST_TIMEOUT

\* asyncio.wait_for(event.wait(), REQUEST_TIMEOUT) raises TimeoutError
HttpTimeout(h) ==
    /\ hs[h].pc = "waiting"
    /\ ~hs[h].event
    /\ TimedOut(h)
    /\ Finish(h, 504, "tunnel_timeout")
    /\ PopAwaiter(h)
    /\ UNCHANGED <<impl, ctlVars, regVars, now, cleanupStarted, lastSweep, rateVars, fwVars>>

\* tunnels_with_firewall.py cleanup_task: every minute, entries older than
\* REQUEST_TIMEOUT leave pending_requests
Expired(t) == {r \in DOMAIN pending_requests : t - pending_requests[r].timestamp > REQUEST_TIMEOUT}

Sweep ==
    /\ impl = "twf"
    /\ cleanupStarted
    /\ now - lastSweep >= CLEANUP_PERIOD
    /\ pending_requests' = [r \in (DOMAIN pending_requests) \ Expired(now) |->
                              pending_requests[r]]
    /\ lastSweep' = now
    /\ UNCHANGED <<impl, ctlVars, regVars, now, hs, cleanupStarted, lastEvent, rateVars, fwVars>>

\* time passes, but not past a timer that is due
Due ==
    \/ \E h \in Handlers : /\ hs[h].pc = "waiting"
                           /\ hs[h].event \/ TimedOut(h)
    \/ cleanupStarted /\ now - lastSweep >= CLEANUP_PERIOD

TickUpTo(limit) ==
    /\ now < limit
    /\ ~Due
    /\ now' = now + 1
    /\ passLog' = [ip \in Ips |-> KeepRecent(passLog[ip], now + 1)]
    /\ UNCHANGED <<impl, ctlVars, regVars, pending_requests, hs, cleanupStarted, lastSweep,
                   lastEvent, rate_limit_store, rate_limits, fwVars>>

Tick == TickUpTo(MaxTime)

\* ------------------------------------------- firewall API, firewall_api.py
\* one minute, the shortest duration the API accepts
ApproveDurations == {2}

add_firewall_rule(r) ==
    /\ r \notin fwRules
    /\ projects[RuleCatalog[r].project_id].exists
    /\ fwRules' = fwRules \cup {r}
    /\ UNCHANGED <<impl, ctlVars, regVars, proxyVars, rateVars, fwCache, accessReqs>>

delete_firewall_rule(r) ==
    /\ r \in fwRules
    /\ fwRules' = fwRules \ {r}
    /\ UNCHANGED <<impl, ctlVars, regVars, proxyVars, rateVars, fwCache, accessReqs>>

approve_firewall_access(i, duration) ==
    /\ i \in 1..Len(accessReqs)
    /\ accessReqs' = [accessReqs EXCEPT ![i].status = "approved",
                                        ![i].approved_until = now + duration]
    /\ UNCHANGED <<impl, ctlVars, regVars, proxyVars, rateVars, fwRules, fwCache>>

reject_firewall_access(i) ==
    /\ i \in 1..Len(accessReqs)
    /\ accessReqs' = [accessReqs EXCEPT ![i].status = "rejected"]
    /\ UNCHANGED <<impl, ctlVars, regVars, proxyVars, rateVars, fwRules, fwCache>>

\* firewall_access.revoke_access_request(request_id=i)
revoke_access_request(i) ==
    /\ i \in 1..Len(accessReqs)
    /\ accessReqs[i].status = "approved"
    /\ accessReqs' = [accessReqs EXCEPT ![i].status = "revoked",
                                        ![i].approved_until = now]
    /\ UNCHANGED <<impl, ctlVars, regVars, proxyVars, rateVars, fwRules, fwCache>>

\* firewall_access.create_access_request called by the evaluator for a request
\* it blocks
create_access_request(project_id, ip, method, path) ==
    /\ Len(accessReqs) < MaxAccessReqs
    /\ accessReqs' = Append(accessReqs, NewAccessRequest(project_id, ip, method, path))
    /\ UNCHANGED <<impl, ctlVars, regVars, proxyVars, rateVars, fwRules, fwCache>>

\* firewall_access.revoke_access_request as a function of the table: the
\* filters that are set (0 and "" are Python's falsy "not given") narrow the
\* approved rows; with no filter, or when the store fails, nothing changes
revoke_where(reqs, request_id, project_id, ip_address, t, storeFault) ==
    IF (request_id = 0 /\ project_id = 0 /\ ip_address = "") \/ storeFault
    THEN [success |-> FALSE, count |-> 0, reqs |-> reqs]
    ELSE LET hit == {i \in 1..Len(reqs) :
                        /\ reqs[i].status = "approved"
                        /\ request_id # 0 => i = request_id
                        /\ project_id # 0 => reqs[i].project_id = project_id
                        /\ ip_address # "" => reqs[i].ip_address = ip_address}
         IN  [success |-> TRUE, count |-> Cardinality(hit),
              reqs |-> [i \in 1..Len(reqs) |->
                          IF i \in hit
                          THEN [reqs[i] EXCEPT !.status = "revoked", !.approved_until = t]
                          ELSE reqs[i]]]

\* firewall_api.revoke_approved_access: POST .../access-requests/revoke with
\* revoke_all, request_id or ip_address in the body
revoke_approved_access(project_id, hasAccess, revoke_all, request_id, ip_address, storeFault) ==
    LET found == /\ request_id \in 1..Len(accessReqs)
                 /\ accessReqs[request_id].project_id = project_id
        r == IF revoke_all
             THEN revoke_where(accessReqs, 0, project_id, "", now, storeFault)
             ELSE IF request_id # 0
             THEN revoke_where(accessReqs, request_id, 0, "", now, storeFault)
             ELSE revoke_where(accessReqs, 0, project_id, ip_address, now, storeFault)
        status == IF ~hasAccess THEN 403
                  ELSE IF revoke_all THEN (IF r.success THEN 200 ELSE 500)
                  ELSE IF request_id # 0
                       THEN (IF ~found THEN 404 ELSE IF r.success THEN 200 ELSE 500)
                  ELSE IF ip_address # "" THEN (IF r.success THEN 200 ELSE 500)
                  ELSE 400
    IN  /\ accessReqs' = IF status = 200 THEN r.reqs ELSE accessReqs
        /\ lastEvent' = [NoEvent EXCEPT
                            !.kind = "revoke", !.status = status,
                            !.note = IF revoke_all THEN "all"
                                     ELSE IF request_id # 0 THEN "id"
                                     ELSE IF ip_address # "" THEN "ip" ELSE "none",
                            !.project = project_id, !.target = request_id,
                            !.ip = ip_address,
                            !.rule = IF status = 200 THEN r.count ELSE 0]
        /\ UNCHANGED <<impl, ctlVars, regVars, now, pending_requests, hs, cleanupStarted,
                       lastSweep, rateVars, fwRules, fwCache>>

\* firewall.is_request_blocked called for one request
FirewallCheck(project_id, method, path) ==
    LET v == firewall_is_request_blocked(project_id, method, path, now)
    IN  /\ fwCache' = v.cache
        /\ lastEvent' = [NoEvent EXCEPT !.kind = "verdict", !.note = "firewall",
                                        !.method = method, !.path = path,
                                        !.rule = v.rule]
        /\ UNCHANGED <<impl, ctlVars, regVars, now, pending_requests, hs, cleanupStarted,
                       lastSweep, rateVars, fwRules, accessReqs>>

\* firewall_aiohttp.is_request_blocked called without a client ip
AiohttpCheck(project_id, method, path) ==
    LET v == is_request_blocked(project_id, method, path, None, now, "none")
    IN  /\ fwCache' = v.cache
        /\ lastEvent' = [NoEvent EXCEPT !.kind = "verdict", !.note = "firewall_aiohttp",
                                        !.method = method, !.path = path,
                                        !.rule = v.rule]
        /\ UNCHANGED <<impl, ctlVars, regVars, now, pending_requests, hs, cleanupStarted,
                       lastSweep, rateVars, fwRules, accessReqs>>

\* ------------------------------ management and agent API, both modules
\* everything the management and agent routes leave alone
edgeVars == <<impl, conn, tunnels, tunnel_to_project, now, pending_requests, hs,
              cleanupStarted, lastSweep, rateVars, fwVars, agentVars, publishing,
              forwarding>>

ApiEvent(note, status, target) ==
    [NoEvent EXCEPT !.kind = "api", !.note = note, !.status = status,
                    !.target = target]

\* project.agent: the agent row the project points at, None when there is none
AgentOf(p) ==
    IF projects[p].agent_id \in Agents /\ agents[projects[p].agent_id].exists
    THEN projects[p].agent_id ELSE None

AgentOnline(p) == AgentOf(p) # None /\ agents[AgentOf(p)].status = "online"

NewCommand(agent_id, project_id, action) ==
    [agent_id |-> agent_id, project_id |-> project_id, action |-> action,
     status |-> "pending", result |-> None, created_at |-> now,
     completed_at |-> -1]

\* the reply of a route that changes nothing
Refuse(note, status, target) ==
    /\ lastEvent' = ApiEvent(note, status, target)
    /\ UNCHANGED <<projects, agents, commands, runtime>>

\* the two ways an action is queued: a Command row (projects.py) or the
\* project's pending_action (app.py)
Queue(p, action, status) ==
    /\ IF api = "projects"
       THEN /\ commands' = Append(commands, NewCommand(projects[p].agent_id, p, action))
            /\ UNCHANGED runtime
       ELSE /\ runtime' = [runtime EXCEPT ![p].pending_action = action]
            /\ UNCHANGED commands
    /\ projects' = [projects EXCEPT ![p].status = status]
    /\ lastEvent' = ApiEvent(action, 200, p)
    /\ UNCHANGED agents

start_project(p) ==
    /\ Len(commands) < MaxCommands
    /\ IF ~projects[p].exists THEN Refuse("start", 404, p)
       ELSE IF ~AgentOnline(p) THEN Refuse("start", 400, p)
       ELSE IF api = "projects" /\ projects[p].status = "running"
            THEN Refuse("start", 400, p)
       ELSE Queue(p, "start", "starting")
    /\ UNCHANGED <<edgeVars, api, client>>

stop_project(p) ==
    /\ Len(commands) < MaxCommands
    /\ IF ~projects[p].exists THEN Refuse("stop", 404, p)
       ELSE IF api = "projects" /\ projects[p].status \notin {"running", "starting"}
            THEN Refuse("stop", 400, p)
       ELSE IF api = "projects" /\ AgentOf(p) = None THEN Refuse("stop", 500, p)
       ELSE IF api = "app" /\ AgentOf(p) = None THEN Refuse("stop", 400, p)
       ELSE Queue(p, "stop", "stopping")
    /\ UNCHANGED <<edgeVars, api, client>>

restart_project(p) ==
    /\ Len(commands) < MaxCommands
    /\ IF ~projects[p].exists THEN Refuse("restart", 404, p)
       ELSE IF api = "projects" /\ ~AgentOnline(p) THEN Refuse("restart", 400, p)
       ELSE IF api = "app" /\ AgentOf(p) = None THEN Refuse("restart", 400, p)
       ELSE Queue(p, "restart", "restarting")
    /\ UNCHANGED <<edgeVars, api, client>>

agent_heartbeat(a) ==
    /\ agents[a].exists
    /\ agents' = [agents EXCEPT ![a].status = "online", ![a].last_heartbeat = now]
    /\ UNCHANGED <<edgeVars, api, projects, lastEvent, commands, runtime, client>>

\* get_agents (projects.py) / list_agents (app.py): the status shown for
\* each agent; only get_agents marks the stale ones offline
get_agents ==
    LET stale(a) == /\ api = "projects"
                    /\ agents[a].last_heartbeat # -1
                    /\ now - agents[a].last_heartbeat > OFFLINE_AFTER
        shown == [a \in {x \in Agents : agents[x].exists} |->
                     IF stale(a) THEN "offline" ELSE agents[a].status]
    IN  /\ agents' = [a \in Agents |->
                        IF a \in DOMAIN shown
                        THEN [agents[a] EXCEPT !.status = shown[a]] ELSE agents[a]]
        /\ lastEvent' = [ApiEvent("agents", 200, 0) EXCEPT !.shown = shown]
        /\ UNCHANGED <<edgeVars, api, projects, commands, runtime, client>>

\* delete_agent: the agent's commands go with it and its projects lose
\* their agent; projects.py refuses while a project of the agent is running
delete_agent(a) ==
    /\ agents[a].exists
    /\ IF api = "projects"
          /\ \E p \in Pids : /\ projects[p].exists
                             /\ projects[p].agent_id = a
                             /\ projects[p].status = "running"
       THEN Refuse("delete_agent", 400, 0)
       ELSE /\ agents' = [agents EXCEPT ![a] = [exists |-> FALSE, status |-> "offline",
                                                last_heartbeat |-> -1]]
            /\ projects' = [p \in Pids |->
                              IF projects[p].agent_id = a
                              THEN [projects[p] EXCEPT !.agent_id = None]
                              ELSE projects[p]]
            /\ commands' = [c \in DOMAIN commands |->
                              IF commands[c].agent_id = a
                              THEN [commands[c] EXCEPT !.status = "deleted"]
                              ELSE commands[c]]
            /\ lastEvent' = ApiEvent("delete_agent", 200, 0)
            /\ UNCHANGED runtime
    /\ UNCHANGED <<edgeVars, api, client>>

\* the ids get_agent_commands (projects.py) returns: the agent's pending rows
PendingOf(a) ==
    SelectSeq([c \in DOMAIN commands |-> c],
              LAMBDA c : commands[c].agent_id = a /\ commands[c].status = "pending")

\* the projects agent_get_commands (app.py) turns into Command rows
ActionsOf(a) ==
    SelectSeq([p \in Pids |-> p],
              LAMBDA p : /\ projects[p].exists
                         /\ projects[p].agent_id = a
                         /\ runtime[p].pending_action # None)

\* one round of ProjectAgent.poll_commands with the route it calls; the
\* reply is lost when delivered is FALSE
ClientPoll(a, delivered) ==
    /\ agents[a].exists
    /\ client[a].inbox = <<>>
    /\ IF api = "projects"
       THEN /\ lastEvent' = [ApiEvent("poll", 200, 0) EXCEPT !.list = PendingOf(a)]
            /\ UNCHANGED <<commands, runtime>>
       ELSE LET ps == ActionsOf(a)
                new == [i \in 1..Len(ps) |->
                          NewCommand(a, ps[i], runtime[ps[i]].pending_action)]
                ids == [i \in 1..Len(ps) |-> Len(commands) + i]
            IN  /\ Len(commands) + Len(ps) <= MaxCommands
                /\ commands' = commands \o new
                /\ runtime' = [p \in Pids |->
                                 IF \E i \in 1..Len(ps) : ps[i] = p
                                 THEN [runtime[p] EXCEPT !.pending_action = None]
                                 ELSE runtime[p]]
                /\ lastEvent' = [ApiEvent("poll", 200, 0) EXCEPT !.list = ids]
    /\ client' = [client EXCEPT ![a].inbox = IF delivered THEN lastEvent'.list ELSE <<>>]
    /\ UNCHANGED <<edgeVars, api, projects, agents>>

\* the status a completion report gives the command
CompletionStatusOrPending(success) == IF success THEN "completed" ELSE "pending"

CompletionStatus(success) == IF success THEN "completed" ELSE "failed"

\* mutant: a failed command leaves the project's status as it was
ProjectAfterKeepOnFailure(row, action, success) ==
    IF ~success THEN row
    ELSE IF action = "stop" THEN [row EXCEPT !.status = "stopped"]
    ELSE [row EXCEPT !.status = "running"]

\* the project row after a completion report for a command with this action
\* (projects.py branches on the action first, app.py on the success flag)
ProjectAfter(row, action, success) ==
    IF ~success THEN [row EXCEPT !.status = "error"]
    ELSE IF action = "stop" THEN [row EXCEPT !.status = "stopped"]
    ELSE [row EXCEPT !.status = "running"]

RuntimeAfter(row, action, success, pid, t) ==
    IF ~success THEN row
    ELSE IF action = "stop" THEN [row EXCEPT !.pid = 0]
    ELSE [row EXCEPT !.pid = pid, !.last_started = t]

\* complete_command / agent_complete_command, called with the key of agent a
CompleteEffect(a, c, success, pid) ==
    IF \/ c \notin DOMAIN commands
       \/ commands[c].status = "deleted"
       \/ commands[c].agent_id # a
    THEN Refuse("complete", 404, c)
    ELSE LET p == commands[c].project_id
         IN  /\ commands' = [commands EXCEPT
                               ![c].status = CompletionStatus(success),
                               ![c].result = IF success THEN "ok" ELSE "err",
                               ![c].completed_at = now]
             /\ projects' = [projects EXCEPT
                               ![p] = ProjectAfter(@, commands[c].action, success)]
             /\ runtime' = [runtime EXCEPT
                              ![p] = RuntimeAfter(@, commands[c].action, success,
                                                  pid, now)]
             /\ lastEvent' = ApiEvent(IF success THEN "complete_ok"
                                      ELSE "complete_err", 200, c)
             /\ UNCHANGED agents

\* a completion report that does not come from the agent's main loop (a
\* second agent process with the same key, a repeated request)
complete_command(a, c, success, pid) ==
    /\ agents[a].exists
    /\ CompleteEffect(a, c, success, pid)
    /\ UNCHANGED <<edgeVars, api, client>>

\* ProjectAgent.execute_command for the next command of the last poll: the
\* action is run, then report_completion posts the outcome; the report does
\* not reach the server when reached is FALSE
ClientExecute(a, success, pid, reached) ==
    /\ client[a].inbox # <<>>
    /\ Len(client[a].runs) < MaxRuns
    /\ client' = [client EXCEPT ![a].inbox = Tail(@),
                                ![a].runs = Append(@, Head(client[a].inbox))]
    /\ IF reached /\ agents[a].exists
       THEN CompleteEffect(a, Head(client[a].inbox), success, pid)
       ELSE UNCHANGED <<commands, projects, runtime, lastEvent, agents>>
    /\ UNCHANGED <<edgeVars, api>>

\* ------------------------------------ projects.py, publishing a project
\* random.randint(1000, 9999) as text
RandomSuffixes == {"7", "8"}

PublishRoutes == {"toggle", "make"}

\* the name both publication routes start from: lower case, blanks and
\* underscores turned into hyphens, nothing else changed
PublishName(p) ==
    LET raw == Lower(ProjectName[p]) \o <<"-">> \o Lower(UserName[p])
    IN  [i \in 1..Len(raw) |-> IF raw[i] \in {" ", "_"} THEN "-" ELSE raw[i]]

\* toggle_project_public and make_project_public up to their commit, for a
\* project that has no subdomain yet: the lookup of the candidate, and for
\* toggle the random suffix when another project holds it; make_project_public
\* answers 400 instead
PublishLookup(p, route, rnd) ==
    /\ publishing[p] = NoSub
    /\ projects[p].exists
    /\ projects[p].subdomain = NoSub
    /\ LET cand == PublishName(p)
           taken == SubdomainTaken(projects, cand)
       IN  IF route = "make" /\ taken
           THEN /\ lastEvent' = [ApiEvent("publish", 400, p) EXCEPT !.shown = cand]
                /\ UNCHANGED publishing
           ELSE /\ publishing' = [publishing EXCEPT ![p] =
                                    IF taken THEN cand \o <<"-", rnd>> ELSE cand]
                /\ UNCHANGED lastEvent
    /\ UNCHANGED <<impl, regVars, now, pending_requests, hs, cleanupStarted, lastSweep,
                   rateVars, fwVars, api, agents, commands, runtime, client, agentVars,
                   forwarding>>

\* db.session.commit() of a publication: Project.subdomain is a unique column
\* (models.py:253), so the UPDATE fails when another row holds the name, and
\* the route rolls back and answers 500
PublishCommit(p) ==
    /\ publishing[p] # NoSub
    /\ LET name == publishing[p]
           ok == /\ projects[p].exists
                 /\ ~\E q \in Pids \ {p} : projects[q].exists /\ projects[q].subdomain = name
       IN  /\ projects' = IF ok THEN [projects EXCEPT ![p].subdomain = name] ELSE projects
           /\ lastEvent' = [ApiEvent("publish", IF ok THEN 200 ELSE 500, p)
                               EXCEPT !.shown = name]
    /\ publishing' = [publishing EXCEPT ![p] = NoSub]
    /\ UNCHANGED <<impl, conn, tunnels, tunnel_to_project, now, pending_requests, hs,
                   cleanupStarted, lastSweep, rateVars, fwVars, api, agents, commands,
                   runtime, client, agentVars, forwarding>>

\* ------------------------------------------- client.py, the agent process
\* the agent process modelled is the one of agent a1, whose key is k1
AgentName == "a1"
AgentKey == "k1"
AgentProjects == {1}
IdText(p) == IF p = 1 THEN "1" ELSE "2"
Ports == {0, 3000}

NoThread == [state |-> "none", c |-> 0]
StartOutcomes == {"ok", "missing_path", "exits_early", "popen_error"}

\* everything the agent's local steps leave alone
serverVars == <<impl, regVars, now, pending_requests, hs, cleanupStarted, lastSweep,
                rateVars, fwVars, api, agents, commands, runtime, client, publishing,
                forwarding>>

AgentEvent(note, target) ==
    [NoEvent EXCEPT !.kind = "agent", !.note = note, !.target = target]

\* start_tunnel_thread: nothing happens when the table has an entry for the
\* project, whether its thread is alive or not
start_tunnel_thread(tt, project_id) ==
    IF tt[project_id].state # "none" THEN tt
    ELSE [tt EXCEPT ![project_id] = [state |-> "started", c |-> 0]]

\* stop_tunnel: the thread is stopped and its entry deleted
stop_tunnel(tt, project_id) == [tt EXCEPT ![project_id] = NoThread]

\* ProjectAgent.start_project: success flag and the two tables afterwards
agent_start_project(rp, tt, project_id, port, outcome) ==
    IF rp[project_id] = "alive"
    THEN [success |-> FALSE, rp |-> rp, tt |-> tt]
    ELSE IF outcome # "ok"
    THEN [success |-> FALSE, rp |-> rp, tt |-> tt]
    ELSE [success |-> TRUE,
          rp |-> [rp EXCEPT ![project_id] = "alive"],
          tt |-> IF port # 0 THEN start_tunnel_thread(tt, project_id) ELSE tt]

\* ProjectAgent.stop_project: the tunnel is stopped first; killOk is FALSE
\* when signalling the process raises
agent_stop_project(rp, tt, project_id, killOk) ==
    IF rp[project_id] = "none"
    THEN [success |-> FALSE, rp |-> rp, tt |-> tt]
    ELSE IF ~killOk
    THEN [success |-> FALSE, rp |-> rp, tt |-> stop_tunnel(tt, project_id)]
    ELSE [success |-> TRUE,
          rp |-> [rp EXCEPT ![project_id] = "none"],
          tt |-> stop_tunnel(tt, project_id)]

\* execute_command's local part for a start command
AgentStart(p, port, outcome) ==
    /\ agent_loop.pc # "exited"
    /\ LET r == agent_start_project(running_processes, tunnel_threads, p, port, outcome)
       IN  /\ running_processes' = r.rp
           /\ tunnel_threads' = r.tt
           /\ lastEvent' = [AgentEvent(IF r.success THEN "start_ok" ELSE "start_failed", p)
                               EXCEPT !.port = port,
                                      !.list = IF r.success /\ port # 0
                                                  /\ tunnel_threads[p].state # "none"
                                               THEN <<"tunnel_already_running">>
                                               ELSE <<>>]
    /\ UNCHANGED <<serverVars, consecutive_errors, agent_loop>>

\* execute_command's local part for a stop command
AgentStop(p, killOk) ==
    /\ agent_loop.pc # "exited"
    /\ LET r == agent_stop_project(running_processes, tunnel_threads, p, killOk)
       IN  /\ running_processes' = r.rp
           /\ tunnel_threads' = r.tt
           /\ lastEvent' = AgentEvent(IF r.success THEN "stop_ok" ELSE "stop_failed", p)
    /\ UNCHANGED <<serverVars, consecutive_errors, agent_loop>>

\* the child process ends by itself; its entry stays in running_processes
ProcessExit(p) ==
    /\ running_processes[p] = "alive"
    /\ running_processes' = [running_processes EXCEPT ![p] = "exited"]
    /\ UNCHANGED <<serverVars, lastEvent, tunnel_threads, consecutive_errors, agent_loop>>

\* WebSocketTunnelThread._run_tunnel: ws_connect opens connection c
ThreadDial(p, c) ==
    /\ tunnel_threads[p].state = "started"
    /\ conn[c].pc = "new"
    /\ \A q \in Pids : tunnel_threads[q].c # c
    /\ tunnel_threads' = [tunnel_threads EXCEPT ![p] = [state |-> "dialed", c |-> c]]
    /\ UNCHANGED <<serverVars, lastEvent, running_processes, consecutive_errors,
                   agent_loop>>

\* the edge runs its handshake on the connection the worker opened
ThreadHandshake(p) ==
    /\ tunnel_threads[p].state = "dialed"
    /\ TunnelControl(tunnel_threads[p].c, IdText(p), AgentKey, "none")

\* _run_tunnel returns: the connection was refused or has ended; nothing
\* removes the worker's entry and nothing dials again
ThreadEnd(p) ==
    /\ tunnel_threads[p].state = "dialed"
    /\ conn[tunnel_threads[p].c].pc = "closed"
    /\ tunnel_threads' = [tunnel_threads EXCEPT ![p].state = "done"]
    /\ UNCHANGED <<serverVars, lastEvent, running_processes, consecutive_errors,
                   agent_loop>>

\* the counter after one transport call
Count(n, ok) == IF ok THEN 0 ELSE n + 1

\* ProjectAgent.run before its loop: the first heartbeat decides whether the
\* agent goes on
AgentConnect(ok) ==
    /\ agent_loop.pc = "connect"
    /\ consecutive_errors' = Count(consecutive_errors, ok)
    /\ agent_loop' = [agent_loop EXCEPT !.pc = IF ok THEN "poll" ELSE "exited"]
    /\ agents' = IF ok THEN [agents EXCEPT ![AgentName].status = "online",
                                           ![AgentName].last_heartbeat = now]
                 ELSE agents
    /\ lastEvent' = AgentEvent(IF ok THEN "heartbeat_ok" ELSE "heartbeat_failed", 0)
    /\ UNCHANGED <<impl, regVars, now, pending_requests, hs, cleanupStarted, lastSweep,
                   rateVars, fwVars, api, commands, runtime, client,
                   running_processes, tunnel_threads, publishing, forwarding>>

\* top of the loop: send_heartbeat when the interval has passed
LoopHeartbeat(due, ok) ==
    /\ agent_loop.pc = "heartbeat"
    /\ agent_loop' = [agent_loop EXCEPT !.pc = "poll"]
    /\ IF due
       THEN /\ consecutive_errors' = Count(consecutive_errors, ok)
            /\ agents' = IF ok THEN [agents EXCEPT ![AgentName].status = "online",
                                                   ![AgentName].last_heartbeat = now]
                         ELSE agents
            /\ lastEvent' = AgentEvent(IF ok THEN "heartbeat_ok" ELSE "heartbeat_failed", 0)
       ELSE UNCHANGED <<consecutive_errors, agents, lastEvent>>
    /\ UNCHANGED <<impl, regVars, now, pending_requests, hs, cleanupStarted, lastSweep,
                   rateVars, fwVars, api, commands, runtime, client,
                   running_processes, tunnel_threads, publishing, forwarding>>

\* poll_commands as the loop sees it: n commands came back, none on a
\* failure. A 200 answer whose body is not JSON makes response.json() raise
\* past poll_commands into the loop's handler, which counts it and sleeps
\* without reaching should_restart.
PollOutcomes == {"ok", "failed", "garbled"}

LoopPoll(outcome, n) ==
    /\ agent_loop.pc = "poll"
    /\ consecutive_errors < MaxErrors
    /\ consecutive_errors' = Count(consecutive_errors, outcome = "ok")
    /\ agent_loop' = IF outcome = "garbled" THEN [pc |-> "heartbeat", todo |-> 0]
                     ELSE [pc |-> "exec", todo |-> IF outcome = "ok" THEN n ELSE 0]
    /\ lastEvent' = AgentEvent(IF outcome = "ok" THEN "poll_ok" ELSE "poll_failed", 0)
    /\ UNCHANGED <<serverVars, running_processes, tunnel_threads>>

\* execute_command for one command of the poll: the action, then
\* report_completion, which reaches the server or does not
LoopExecute(p, action, port, outcome, killOk, reported) ==
    /\ agent_loop.pc = "exec"
    /\ agent_loop.todo > 0
    /\ LET stopped == agent_stop_project(running_processes, tunnel_threads, p, killOk)
           r == IF action = "start"
                THEN agent_start_project(running_processes, tunnel_threads, p, port, outcome)
                ELSE IF action = "stop" THEN stopped
                ELSE agent_start_project(stopped.rp, stopped.tt, p, port, outcome)
       IN  /\ running_processes' = r.rp
           /\ tunnel_threads' = r.tt
    /\ consecutive_errors' = Count(consecutive_errors, reported)
    /\ agent_loop' = [agent_loop EXCEPT !.todo = @ - 1]
    /\ lastEvent' = AgentEvent(IF reported THEN "report_ok" ELSE "report_failed", p)
    /\ UNCHANGED serverVars

RECURSIVE StopAll(_, _, _, _)
StopAll(rp, tt, ps, killOk) ==
    IF ps = {} THEN [rp |-> rp, tt |-> tt]
    ELSE LET p == CHOOSE x \in ps : TRUE
             r == agent_stop_project(rp, tt, p, killOk)
         IN  StopAll(r.rp, r.tt, ps \ {p}, killOk)

\* should_restart at the end of an iteration: past the threshold,
\* _restart_agent stops the children, starts a new agent process and exits;
\* below it the loop sleeps poll_interval
LoopCheck(killOk) ==
    /\ agent_loop.pc = "exec"
    /\ agent_loop.todo = 0
    /\ IF consecutive_errors >= MAX_CONSECUTIVE_ERRORS
       THEN LET r == StopAll(running_processes, tunnel_threads, Pids, killOk)
                left == {p \in Pids : r.rp[p] = "alive"}
            IN  /\ lastEvent' = [AgentEvent("restart", 0) EXCEPT
                                    !.list = IF left = {} THEN <<>> ELSE <<"child">>]
                /\ running_processes' = [p \in Pids |-> "none"]
                /\ tunnel_threads' = [p \in Pids |-> NoThread]
                /\ consecutive_errors' = 0
                /\ agent_loop' = [pc |-> "connect", todo |-> 0]
       ELSE /\ agent_loop' = [agent_loop EXCEPT !.pc = "heartbeat"]
            /\ UNCHANGED <<lastEvent, running_processes, tunnel_threads,
                           consecutive_errors>>
    /\ UNCHANGED serverVars

\* ------------------------------------------------------------------- Next
Next ==
    \/ \E c \in Conns, project_id \in ProjectIdParams, api_key \in ApiKeys,
          fault \in HandshakeFaults : TunnelControl(c, project_id, api_key, fault)
    \/ \E c \in Conns, storeFault \in BOOLEAN : TunnelClose(c, storeFault)
    \/ \E c \in Conns, project_id \in ProjectIdParams, api_key \in ApiKeys,
          fault \in TwfFaults : TwfHandshake(c, project_id, api_key, fault)
    \/ \E c \in Conns : TwfPrepareFail(c)
    \/ \E c \in Conns, sendOk \in BOOLEAN : TwfRegister(c, sendOk)
    \/ \E c \in Conns : TwfTunnelClose(c)
    \/ \E p \in Pids : DeleteProject(p)

Spec == Init /\ [][Next]_vars

\* ------------------------------------------------- the edge serving traffic
\* one agent that passes the handshake and may leave, public requests from
\* one address, agent frames and the clock
GoodIds == {"1"}
GoodKeys == {"k1"}
ProxyConns == {1}

NextProxy ==
    \/ \E c \in ProxyConns, project_id \in GoodIds, api_key \in GoodKeys :
          TunnelControl(c, project_id, api_key, "none")
    \/ \E c \in ProxyConns : TunnelClose(c, FALSE)
    \/ \E c \in ProxyConns, project_id \in GoodIds, api_key \in GoodKeys :
          TwfHandshake(c, project_id, api_key, "none")
    \/ \E c \in ProxyConns, sendOk \in BOOLEAN : TwfRegister(c, sendOk)
    \/ \E c \in ProxyConns : TwfTunnelClose(c)
    \/ \E h \in Handlers, host \in Hosts, rid \in Ids, dbFault \in LookupFaults :
          HttpStart(h, "ip1", host, "GET", <<"/">>, rid, dbFault, "none")
    \/ \E h \in Handlers, outcome \in SendOutcomes : HttpSend(h, outcome)
    \/ \E c \in ProxyConns, request_id \in Ids, status \in StatusTexts :
          TunnelMessage(c, request_id, status)
    \/ \E h \in Handlers : HttpWake(h)
    \/ \E h \in Handlers : HttpTimeout(h)
    \/ Sweep
    \/ TickUpTo(ProxyTime)

SpecProxy == Init /\ [][NextProxy]_vars

\* ------------------------------------------------- the edge under load
\* two client addresses send requests as fast as they like to a tunnel whose
\* connection takes no frame
RateHosts == { <<"a", "-", "u", ".", "x">>, <<"x">> }

NextRate ==
    \/ \E c \in ProxyConns, project_id \in GoodIds, api_key \in GoodKeys :
          TunnelControl(c, project_id, api_key, "none")
    \/ \E c \in ProxyConns, project_id \in GoodIds, api_key \in GoodKeys :
          TwfHandshake(c, project_id, api_key, "none")
    \/ \E c \in ProxyConns : TwfRegister(c, TRUE)
    \/ \E h \in Handlers, ip \in Ips, host \in RateHosts :
          HttpStart(h, ip, host, "GET", <<"/">>, IF h = 1 THEN "r1" ELSE "r2",
                    "none", "none")
    \/ \E h \in Handlers : HttpSend(h, "error")
    \/ Sweep
    \/ Tick

SpecRate == Init /\ [][NextRate]_vars

\* ------------------------------------------- the edge behind the firewall
\* tunnels_with_firewall.py with one tunnel up: an operator edits the rules
\* and decides on access requests while a client sends requests, one at a
\* time, that the tunnel connection does not take
FwHosts == { <<"a", "-", "u", ".", "x">> }
FwHandlers == {1}
FwPaths == { <<"/", "a">> }
FwMethods == {"GET", "POST"}
FwIps == {"ip1"}
FwRuleIds == {2}

NextFw ==
    \/ \E c \in ProxyConns, project_id \in GoodIds, api_key \in GoodKeys :
          TwfHandshake(c, project_id, api_key, "none")
    \/ \E c \in ProxyConns : TwfRegister(c, TRUE)
    \/ \E r \in FwRuleIds : add_firewall_rule(r)
    \/ \E h \in FwHandlers, ip \in FwIps, host \in FwHosts, method \in FwMethods,
          path \in FwPaths, fwFault \in FirewallFaults :
          HttpStart(h, ip, host, method, path, "r1", "none", fwFault)
    \/ \E h \in FwHandlers : HttpSend(h, "error")
    \/ \E i \in 1..MaxAccessReqs, duration \in ApproveDurations :
          approve_firewall_access(i, duration)
    \/ \E i \in 1..MaxAccessReqs : reject_firewall_access(i)
    \/ \E i \in 1..MaxAccessReqs : revoke_access_request(i)
    \/ Sweep
    \/ Tick

\* only tunnels_with_firewall.py calls the firewall
InitFw == Init /\ impl = "twf"

SpecFw == InitFw /\ [][NextFw]_vars

\* =================================================================== claims
ErrorFrames == {"error_missing", "error_invalid_key", "error_invalid_project_id",
                "error_not_found", "error_database", "error_exists"}

\* C1 (as claimed): a registered subdomain's entries are never replaced by a
\* later handshake, and no two open control connections serve one subdomain.
C1_OneConnectionPerSubdomain ==
    [][ /\ \A s \in (DOMAIN tunnels) \cap (DOMAIN tunnels') :
              /\ tunnels'[s] = tunnels[s]
              /\ tunnel_to_project'[s] = tunnel_to_project[s]
        /\ \A c1, c2 \in Conns :
              (c1 # c2 /\ conn'[c1].pc = "open" /\ conn'[c2].pc = "open")
                 => conn'[c1].sub # conn'[c2].sub ]_vars

C7_FailedHandshakeLeavesNoTrace ==
    [][ \A c \in Conns :
          /\ (conn[c].pc = "new" /\ conn'[c].pc = "closed"
                 /\ conn'[c].reply # "prepare_failed")
                => /\ conn'[c].reply \in ErrorFrames
                   /\ tunnels' = tunnels
                   /\ tunnel_to_project' = tunnel_to_project
                   /\ \A p \in Pids : projects'[p].status = projects[p].status
          /\ (conn[c].pc # "open" /\ conn'[c].pc = "open")
                => conn'[c].sub \notin DOMAIN tunnels ]_vars

\* C8 (as claimed): when a registered tunnel's connection ends, its subdomain
\* leaves both maps and the project's status becomes stopped.
C8_CloseDeregistersAndStops ==
    [][ \A c \in Conns :
          (conn[c].pc = "open" /\ conn'[c].pc = "closed")
             => /\ conn[c].sub \notin DOMAIN tunnels'
                /\ conn[c].sub \notin DOMAIN tunnel_to_project'
                /\ (projects[conn[c].pid].exists
                      => projects'[conn[c].pid].status = "stopped") ]_vars
\* C2: a request answered from a tunnel response uses the frame stored under
\* its own request id, and that frame carries this id; only a handler adds
\* entries to pending_requests; a frame is written only into the awaiter of
\* its own id; a frame whose id is not pending changes no entry and no
\* handler.
C2_ResponseMatchesRequest ==
    [][ /\ \A h \in Handlers :
              (hs[h].pc = "waiting" /\ hs'[h].pc = "idle" /\ lastEvent'.note = "ok")
                 => /\ hs[h].rid \in DOMAIN pending_requests
                    /\ pending_requests[hs[h].rid].response.request_id = hs[h].rid
                    /\ pending_requests[hs[h].rid].response.status = lastEvent'.status
        /\ \A r \in DOMAIN pending_requests' :
              /\ pending_requests'[r].response # NoResponse
                    => pending_requests'[r].response.request_id = r
              /\ r \notin DOMAIN pending_requests
                    => \E h \in Handlers : /\ hs[h].pc = "idle"
                                           /\ hs'[h].pc = "reading"
                                           /\ hs'[h].rid = r
        /\ (lastEvent'.kind = "dropped" /\ lastEvent' # lastEvent)
              => /\ lastEvent'.rid \notin DOMAIN pending_requests
                 /\ pending_requests' = pending_requests
                 /\ hs' = hs ]_vars

\* two requests are in flight, one has its response stored, and a frame with
\* an id nobody waits for has just been dropped
C2_Witness ==
    /\ lastEvent.kind = "dropped"
    /\ \E r1, r2 \in DOMAIN pending_requests :
          /\ r1 # r2
          /\ pending_requests[r1].response # NoResponse
          /\ pending_requests[r2].response = NoResponse

\* C3: when a handler that registered an awaiter returns, on any path, its
\* request id is no longer a key of pending_requests.
C3_AwaiterRemovedOnReturn ==
    [][ \A h \in Handlers :
          (hs[h].pc \in {"reading", "waiting"} /\ hs'[h].pc = "idle")
             => hs[h].rid \notin DOMAIN pending_requests' ]_vars

\* a request has timed out, every handler has returned and nothing is pending
C3_Witness ==
    /\ lastEvent.note = "tunnel_timeout"
    /\ \A h \in Handlers : hs[h].pc = "idle"
    /\ pending_requests = EmptyMap

\* C4: a handler that stops waiting without a response answers 504, not
\* before REQUEST_TIMEOUT has passed since it began to wait, and its entry is
\* gone; no wait outlasts REQUEST_TIMEOUT; a control connection that closes
\* changes no handler and no pending entry.
C4_TimeoutAfterClose ==
    [][ /\ \A h \in Handlers :
              /\ (hs[h].pc = "waiting" /\ ~hs[h].event /\ hs'[h].pc = "idle")
                    => /\ lastEvent'.status = 504
                       /\ now - hs[h].waitStart >= REQUEST_TIMEOUT
                       /\ hs[h].rid \notin DOMAIN pending_requests'
              /\ (hs'[h].pc = "waiting" /\ ~hs'[h].event)
                    => now' - hs'[h].waitStart <= REQUEST_TIMEOUT
        /\ \A c \in Conns :
              (conn[c].pc = "open" /\ conn'[c].pc = "closed")
                 => /\ hs' = hs
                    /\ pending_requests' = pending_requests ]_vars

\* a request waits on a connection that closed after the request was sent,
\* and its deadline has come
C4_Witness ==
    \E h \in Handlers :
        /\ hs[h].pc = "waiting"
        /\ ~hs[h].event
        /\ conn[hs[h].ws].pc = "closed"
        /\ now - hs[h].waitStart >= REQUEST_TIMEOUT
        /\ hs[h].rid \in DOMAIN pending_requests
\* C5 (as claimed): for each address, no more than RATE_LIMIT requests pass
\* check_rate_limit within any window of RATE_WINDOW; a request answered 429
\* registers no awaiter and starts no handler work, and an awaiter is
\* registered only by a request that passed the limiter.
C5_SlidingWindowLimit ==
    [][ /\ \A ip \in Ips : Len(passLog'[ip]) <= RATE_LIMIT
        /\ (lastEvent'.note = "rate_limited" /\ lastEvent' # lastEvent)
              => /\ pending_requests' = pending_requests
                 /\ hs' = hs
        /\ (DOMAIN pending_requests' \ DOMAIN pending_requests # {})
              => \E ip \in Ips : Len(passLog'[ip]) = Len(passLog[ip]) + 1 ]_vars

\* an address has used up its window and its next request was answered 429
\* while another request of the same window is still in flight
C5_Witness ==
    /\ lastEvent.note = "rate_limited"
    /\ Len(passLog[lastEvent.ip]) = RATE_LIMIT
    /\ pending_requests # EmptyMap
\* ---------------------------------------------- the command life cycle
InitCmd ==
    /\ InitRegistry /\ InitProxy /\ InitRate /\ InitFirewall
    /\ impl = "tunnels"
    /\ api \in Apis
    /\ InitStore

CmdAgents == {"a1"}
CmdProjects == {1}

NextCmd ==
    \/ \E a \in CmdAgents : agent_heartbeat(a)
    \/ \E p \in CmdProjects : start_project(p)
    \/ \E p \in CmdProjects : stop_project(p)
    \/ \E p \in CmdProjects : restart_project(p)
    \/ \E a \in CmdAgents, delivered \in BOOLEAN : ClientPoll(a, delivered)
    \/ \E a \in CmdAgents, success \in BOOLEAN, reached \in BOOLEAN :
          ClientExecute(a, success, 7, reached)
    \/ \E a \in Agents, c \in 1..MaxCommands, success \in BOOLEAN, pid \in ClientPids :
          complete_command(a, c, success, pid)
    \/ \E a \in CmdAgents : delete_agent(a)
    \/ TickUpTo(CmdTime)

SpecCmd == InitCmd /\ [][NextCmd]_vars

\* --------------------------------------------------- agent liveness
\* an agent that sends heartbeats for a while and then falls silent, while
\* the user lists the agents and starts or restarts the project
NextLive ==
    \/ \E a \in CmdAgents : agent_heartbeat(a)
    \/ get_agents
    \/ \E p \in CmdProjects : start_project(p)
    \/ \E p \in CmdProjects : restart_project(p)
    \/ TickUpTo(LiveTime)

SpecLive == InitCmd /\ [][NextLive]_vars

\* --------------------------------------------- the edge after the last request
\* public requests arrive until LastArrival and none after it; the tunnel
\* answers, stays silent or closes, and the body of a request may never come
QuietStart(h, rid) ==
    /\ now <= LastArrival
    /\ HttpStart(h, "ip1", <<"a", "-", "u", ".", "x">>, "GET", <<"/">>, rid,
                 "none", "none")

NextQuiet ==
    \/ \E c \in ProxyConns, project_id \in GoodIds, api_key \in GoodKeys :
          TunnelControl(c, project_id, api_key, "none")
    \/ \E c \in ProxyConns : TunnelClose(c, FALSE)
    \/ \E c \in ProxyConns, project_id \in GoodIds, api_key \in GoodKeys :
          TwfHandshake(c, project_id, api_key, "none")
    \/ \E c \in ProxyConns : TwfRegister(c, TRUE)
    \/ \E c \in ProxyConns : TwfTunnelClose(c)
    \/ \E h \in Handlers, rid \in Ids : QuietStart(h, rid)
    \/ \E h \in Handlers, outcome \in SendOutcomes : HttpSend(h, outcome)
    \/ \E c \in ProxyConns, request_id \in Ids : TunnelMessage(c, request_id, 200)
    \/ \E h \in Handlers : HttpWake(h)
    \/ \E h \in Handlers : HttpTimeout(h)
    \/ Sweep
    \/ TickUpTo(QuietTime)

SpecQuiet == Init /\ [][NextQuiet]_vars

\* ------------------------------------------------ app.py unified_handler
HealthPath == <<"/", "h", "e", "a", "l", "t", "h">>
TunnelPath == <<"/", "_", "t", "u", "n", "n", "e", "l">>
HostPaths == { <<"/">>, HealthPath }

\* a handler of the unified application that answers without calling
\* http_handler
Serve(h, status, note, host, path) ==
    /\ hs[h].pc = "idle"
    /\ lastEvent' = [NoEvent EXCEPT !.kind = "response", !.status = status,
                                    !.note = note, !.host = host, !.path = path]
    /\ UNCHANGED <<impl, ctlVars, regVars, now, pending_requests, hs, cleanupStarted,
                   lastSweep, rateVars, fwVars>>

\* unified_handler for every path but /_tunnel, which goes to tunnel_control:
\* /health is answered first, a project subdomain goes to http_handler, and
\* every other host is served by the Flask application
unified_handler(h, ip, host, method, path, rid, dbFault) ==
    LET subdomain == extract_subdomain(Lower(host), DomainName)
    IN  /\ path # TunnelPath
        /\ IF path = HealthPath THEN Serve(h, 200, "health", host, path)
           ELSE IF subdomain.kind = "sub"
                THEN HttpStart(h, ip, host, method, path, rid, dbFault, "none")
           ELSE Serve(h, 200, "flask_app", host, path)

InitHost == Init /\ impl = "tunnels"

NextHost ==
    \/ \E c \in ProxyConns, project_id \in GoodIds, api_key \in GoodKeys :
          TunnelControl(c, project_id, api_key, "none")
    \/ \E c \in ProxyConns : TunnelClose(c, FALSE)
    \/ \E h \in Handlers, host \in Hosts, path \in HostPaths, rid \in Ids,
          dbFault \in LookupFaults :
          unified_handler(h, "ip1", host, "GET", path, rid, dbFault)
    \/ \E h \in Handlers : HttpSend(h, "error")
    \/ TickUpTo(ProxyTime)

SpecHost == InitHost /\ [][NextHost]_vars

\* ------------------------------------------- frames on the control channel
\* two agents hold one tunnel each and send frames, good and bad
FrameKeys == [c \in Conns |-> IF c = 1 THEN [id |-> "1", key |-> "k1"]
                              ELSE [id |-> "2", key |-> "k2"]]

NextFrames ==
    \/ \E c \in Conns : TunnelControl(c, FrameKeys[c].id, FrameKeys[c].key, "none")
    \/ \E c \in Conns : TunnelClose(c, FALSE)
    \/ \E c \in Conns : TwfHandshake(c, FrameKeys[c].id, FrameKeys[c].key, "none")
    \/ \E c \in Conns : TwfRegister(c, TRUE)
    \/ \E c \in Conns : TwfTunnelClose(c)
    \/ \E c \in Conns, request_id \in Ids : TunnelMessage(c, request_id, 200)
    \/ \E c \in Conns, defect \in FrameDefects : TunnelBadFrame(c, defect)

SpecFrames == Init /\ [][NextFrames]_vars

\* ------------------------------------------ the agent and its tunnel workers
\* the agent runs start and stop commands for its project while the child
\* process may die and the edge may drop the tunnel connection; a worker that
\* can take its next step takes it
InitAgent ==
    /\ InitRegistry /\ InitProxy /\ InitRate /\ InitFirewall
    /\ impl = "tunnels"
    /\ api = "projects"
    /\ InitStore

NextAgent ==
    \/ \E p \in AgentProjects, port \in Ports, outcome \in StartOutcomes :
          AgentStart(p, port, outcome)
    \/ \E p \in AgentProjects, killOk \in BOOLEAN : AgentStop(p, killOk)
    \/ \E p \in AgentProjects : ProcessExit(p)
    \/ \E p \in AgentProjects, c \in Conns : ThreadDial(p, c)
    \/ \E p \in AgentProjects : ThreadHandshake(p)
    \/ \E c \in Conns : TunnelClose(c, FALSE)
    \/ \E p \in AgentProjects : ThreadEnd(p)

SpecAgent == InitAgent /\ [][NextAgent]_vars

\* the same agent when its project has a port and its commands succeed, with
\* the scheduling the threads and the edge's server give: a worker that can
\* dial dials, a handshake that can run runs, a worker whose connection has
\* ended returns
NextRedial ==
    \/ \E p \in AgentProjects : AgentStart(p, 3000, "ok")
    \/ \E p \in AgentProjects : AgentStop(p, TRUE)
    \/ \E p \in AgentProjects : ProcessExit(p)
    \/ \E p \in AgentProjects, c \in Conns : ThreadDial(p, c)
    \/ \E p \in AgentProjects : ThreadHandshake(p)
    \/ \E c \in Conns : TunnelClose(c, FALSE)
    \/ \E p \in AgentProjects : ThreadEnd(p)

SpecRedial ==
    /\ InitAgent
    /\ [][NextRedial]_vars
    /\ WF_vars(\E p \in AgentProjects, c \in Conns : ThreadDial(p, c))
    /\ WF_vars(\E p \in AgentProjects : ThreadHandshake(p))
    /\ WF_vars(\E p \in AgentProjects : ThreadEnd(p))

\* ------------------------------------------- the rule evaluators alone
\* the stored rules are any rows of the rule table (firewall_models's
\* add_firewall_rule stores a row without validating it)
InitRules ==
    /\ impl \in Impls
    /\ InitRegistry
    /\ InitProxy
    /\ InitRate
    /\ fwRules \in SUBSET RuleIds
    /\ fwCache = EmptyMap
    /\ accessReqs = <<>>
    /\ api = "projects"
    /\ InitStore

NextRules ==
    \/ \E method \in Methods, path \in Paths : FirewallCheck(1, method, path)
    \/ \E method \in Methods, path \in Paths : AiohttpCheck(1, method, path)

SpecRules == InitRules /\ [][NextRules]_vars

\* ---- the firewall's verdicts, as the claims read them
C9_Approved(project_id, ip, method, path) ==
    \E i \in 1..Len(accessReqs) :
        /\ accessReqs[i] = [project_id |-> project_id, ip_address |-> ip,
                            method |-> method, path |-> path, status |-> "approved",
                            approved_until |-> accessReqs[i].approved_until]
        /\ accessReqs[i].approved_until > now

C9_Matches(rules, method, path) ==
    \E r \in rules :
        \/ RuleCatalog[r].rule_type = "method" /\ Upper(RuleCatalog[r].method) = Upper(method)
        \/ /\ RuleCatalog[r].rule_type = "path"
           /\ \/ path = RuleCatalog[r].text
              \/ StartsWith(path, RuleCatalog[r].text \o <<"/">>)
        \/ /\ RuleCatalog[r].rule_type = "pattern"
           /\ PatternValid(RuleCatalog[r].text)
           /\ ReMatch(RuleCatalog[r].text, path)

C9_StoredRules(project_id) == {r \in fwRules : RuleCatalog[r].project_id = project_id}

C9_RulesInUse(project_id) ==
    IF CacheFresh(fwCache, project_id, now) THEN fwCache[project_id].rules
    ELSE C9_StoredRules(project_id)

C9_Passed(h) == impl = "twf" /\ hs[h].pc = "idle" /\ hs'[h].pc = "reading"

C9_Blocked ==
    lastEvent'.note = "firewall_blocked" /\ Len(accessReqs') = Len(accessReqs) + 1

C10_BlockedRequestIsLogged ==
    [][ /\ ( /\ lastEvent'.note = "firewall_blocked"
             /\ lastEvent' # lastEvent \/ Len(accessReqs') > Len(accessReqs) )
              => /\ lastEvent'.status = 403
                 /\ Len(accessReqs') = Len(accessReqs) + 1
                 /\ SubSeq(accessReqs', 1, Len(accessReqs)) = accessReqs
                 /\ LET a == accessReqs'[Len(accessReqs')]
                    IN  /\ a.status = "pending"
                        /\ a.ip_address = lastEvent'.ip
                        /\ a.method = lastEvent'.method
                        /\ a.path = lastEvent'.path
                 /\ pending_requests' = pending_requests
                 /\ hs' = hs
        /\ Len(accessReqs') > Len(accessReqs)
              => lastEvent'.note = "firewall_blocked" ]_vars

\* a request has just been blocked: its access request is the newest row,
\* still pending, and no request is in flight
C10_Witness ==
    /\ lastEvent.note = "firewall_blocked"
    /\ accessReqs # <<>>
    /\ LET a == accessReqs[Len(accessReqs)]
       IN  /\ a.status = "pending"
           /\ a.ip_address = lastEvent.ip
           /\ a.method = lastEvent.method
           /\ a.path = lastEvent.path
    /\ pending_requests = EmptyMap
C11_MethodHits(rules, method) ==
    {r \in rules : /\ RuleCatalog[r].rule_type = "method"
                   /\ Upper(RuleCatalog[r].method) = Upper(method)}

C11_PathHits(rules, path) ==
    {r \in rules : /\ RuleCatalog[r].rule_type = "path"
                   /\ \/ path = RuleCatalog[r].text
                      \/ StartsWith(path, RuleCatalog[r].text \o <<"/">>)}

C11_PatternHits(rules, path) ==
    {r \in rules : /\ RuleCatalog[r].rule_type = "pattern"
                   /\ PatternValid(RuleCatalog[r].text)
                   /\ ReMatch(RuleCatalog[r].text, path)}

\* C11: each evaluator cites a method rule that matches if there is one,
\* else a path rule that matches if there is one, else a pattern rule whose
\* regex is valid and matches from the start of the path, and blocks nothing
\* when no rule matches; a pattern rule with an invalid regex is never cited
\* and does not keep the rules after it from being checked.
C11_FirstMatchInClassOrder ==
    [][ (lastEvent'.kind = "verdict" /\ lastEvent' # lastEvent)
          => LET rules == C9_RulesInUse(1)
                 m == C11_MethodHits(rules, lastEvent'.method)
                 p == C11_PathHits(rules, lastEvent'.path)
                 x == C11_PatternHits(rules, lastEvent'.path)
                 cited == lastEvent'.rule
             IN  /\ m # {} => cited \in m
                 /\ (m = {} /\ p # {}) => cited \in p
                 /\ (m = {} /\ p = {} /\ x # {}) => cited \in x
                 /\ (m = {} /\ p = {} /\ x = {}) => cited = 0 ]_vars

\* a pattern rule is cited although a rule with an invalid regex and a lower
\* id is stored, for a request no method or path rule matches
C11_Witness ==
    /\ lastEvent.kind = "verdict"
    /\ lastEvent.rule = 5
    /\ 4 \in fwRules
    /\ fwCache # EmptyMap
    /\ 4 \in fwCache[1].rules
    /\ \E r \in fwRules : RuleCatalog[r].rule_type = "method"
    /\ \E r \in fwRules : RuleCatalog[r].rule_type = "path"
\* C12 (as claimed): a request whose firewall evaluation met a fault (the
\* approval lookup, the rule load or the recording of the access request
\* raised) is never blocked: every blocked request was evaluated cleanly.
C12_FaultNeverBlocks ==
    [][ C9_Blocked => lastEvent'.fw = "clean" ]_vars

\* a request was blocked although its approval lookup had failed and an
\* unexpired approval for its tuple is stored
C12_Witness ==
    /\ lastEvent.note = "firewall_blocked"
    /\ lastEvent.fw = "lookup_failed"
    /\ C9_Approved(1, lastEvent.ip, lastEvent.method, lastEvent.path)
\* C13: a command whose status is completed or failed keeps its row and
\* never has the status pending again, whatever is polled, reported or
\* started, stopped and restarted afterwards.
C13_TerminalNeverPending ==
    [][ \A c \in DOMAIN commands :
          commands[c].status \in {"completed", "failed"}
             => /\ c \in DOMAIN commands'
                /\ commands'[c].status # "pending" ]_vars

\* a command is in a terminal state, its agent has executed it, and a later
\* user action has queued the next command for the same project
C13_Witness ==
    \E c1, c2 \in DOMAIN commands :
        /\ c1 < c2
        /\ commands[c1].status \in {"completed", "failed"}
        /\ commands[c2].status = "pending"
        /\ commands[c2].project_id = commands[c1].project_id
        /\ \E a \in Agents : \E i \in DOMAIN client[a].runs : client[a].runs[i] = c1
\* C14 (as claimed): a completion report for a command that is already
\* completed or failed changes neither the command nor its project.
C14_RepeatedReportIsNoOp ==
    [][ \A c \in DOMAIN commands :
          ( /\ commands[c].status \in {"completed", "failed"}
            /\ lastEvent'.note \in {"complete_ok", "complete_err"}
            /\ lastEvent'.target = c
            /\ <<lastEvent, commands, projects, runtime>>'
                  # <<lastEvent, commands, projects, runtime>> )
             => /\ commands' = commands
                /\ projects' = projects
                /\ runtime' = runtime ]_vars

\* a command reported as completed has been turned into a failed one and
\* its project into an erroneous one by a later report
C14_Witness ==
    \E c \in DOMAIN commands :
        /\ commands[c].status = "failed"
        /\ commands[c].completed_at = CmdTime
        /\ lastEvent.note = "complete_err"
        /\ lastEvent.target = c
        /\ projects[commands[c].project_id].status = "error"
        /\ runtime[commands[c].project_id].pid # 0
\* C15 (as claimed): no poll returns a command that the agent has already
\* received, and the agent runs no command twice, also when a completion
\* report is lost.
C15_ConsumedExactlyOnce ==
    [][ /\ \A a \in Agents : \A i, j \in DOMAIN client'[a].runs :
              client'[a].runs[i] = client'[a].runs[j] => i = j
        /\ (lastEvent'.note = "poll" /\ lastEvent' # lastEvent)
              => \A k \in DOMAIN lastEvent'.list : \A a \in Agents :
                    /\ \A i \in DOMAIN client[a].runs :
                          client[a].runs[i] # lastEvent'.list[k]
                    /\ \A i \in DOMAIN client[a].inbox :
                          client[a].inbox[i] # lastEvent'.list[k] ]_vars

\* the agent has run one command twice and the command is still pending
C15_Witness ==
    \E a \in Agents : \E i, j \in DOMAIN client[a].runs :
        /\ i < j
        /\ client[a].runs[i] = client[a].runs[j]
        /\ commands[client[a].runs[i]].status = "pending"
\* C16: a completion report that is accepted sets the command to completed
\* when it reports success and to failed otherwise, and sets the project to
\* running with a pid and last_started stamped for a successful start or
\* restart, to stopped without pid for a successful stop, and to error for
\* every failed command.
C16_ReportSetsStatus ==
    [][ \A c \in DOMAIN commands :
          ( /\ lastEvent'.note \in {"complete_ok", "complete_err"}
            /\ lastEvent'.target = c
            /\ <<lastEvent, commands, projects, runtime>>'
                  # <<lastEvent, commands, projects, runtime>> )
             => LET ok == lastEvent'.note = "complete_ok"
                    p == commands[c].project_id
                IN  /\ commands'[c].status = IF ok THEN "completed" ELSE "failed"
                    /\ (ok /\ commands[c].action \in {"start", "restart"})
                          => /\ projects'[p].status = "running"
                             /\ runtime'[p].pid \in ClientPids
                             /\ runtime'[p].last_started = now
                    /\ (ok /\ commands[c].action = "stop")
                          => /\ projects'[p].status = "stopped"
                             /\ runtime'[p].pid = 0
                    /\ ~ok => projects'[p].status = "error" ]_vars

\* a project that was started has been stopped by a successful stop command,
\* and a restart command has failed before
C16_Witness ==
    \E c \in DOMAIN commands :
        /\ commands[c].action = "stop"
        /\ commands[c].status = "completed"
        /\ lastEvent.note = "complete_ok"
        /\ lastEvent.target = c
        /\ projects[commands[c].project_id].status = "stopped"
        /\ runtime[commands[c].project_id].pid = 0
        /\ runtime[commands[c].project_id].last_started # -1
C18_Stale(a) ==
    /\ agents[a].last_heartbeat # -1
    /\ now - agents[a].last_heartbeat > 2 * HEARTBEAT_INTERVAL

C18_StaleAgentIsOffline ==
    [][ /\ (lastEvent'.note = "agents" /\ lastEvent' # lastEvent)
            => \A a \in DOMAIN lastEvent'.shown :
                  C18_Stale(a) => lastEvent'.shown[a] = "offline"
        /\ \A p \in Pids :
             ( /\ lastEvent'.note \in {"start", "restart"}
               /\ lastEvent'.target = p
               /\ <<lastEvent, commands, projects, runtime>>'
                     # <<lastEvent, commands, projects, runtime>>
               /\ projects[p].exists
               /\ AgentOf(p) # None
               /\ C18_Stale(AgentOf(p)) )
                => lastEvent'.status >= 400 ]_vars

\* a Command was created for an agent whose last heartbeat was, at that
\* moment, more than two heartbeat intervals old
C18_Witness ==
    \E c \in DOMAIN commands :
        /\ commands[c].action \in {"start", "restart"}
        /\ agents[commands[c].agent_id].exists
        /\ agents[commands[c].agent_id].last_heartbeat # -1
        /\ commands[c].created_at - agents[commands[c].agent_id].last_heartbeat
              > 2 * HEARTBEAT_INTERVAL
\* C19: once more than 2 x REQUEST_TIMEOUT plus one sweeper period has passed
\* since the last public request arrived, pending_requests is empty, whatever
\* became of the earlier requests.
C19_QuiescentTableEmpty ==
    now - LastArrival > 2 * REQUEST_TIMEOUT + CLEANUP_PERIOD
        => DOMAIN pending_requests = {}

\* long after the last arrival an awaiter is still in the table: its handler
\* is still reading the request body
C19_Witness ==
    /\ now - LastArrival > 2 * REQUEST_TIMEOUT + CLEANUP_PERIOD
    /\ \E h \in Handlers :
          /\ hs[h].pc = "reading"
          /\ hs[h].rid \in DOMAIN pending_requests
          /\ now - pending_requests[hs[h].rid].timestamp
                > 2 * REQUEST_TIMEOUT + CLEANUP_PERIOD
\* C20: a public request whose host has no registered tunnel is answered from
\* the host and the store alone: 404 for a host outside the configured
\* domain, 503 for a subdomain that a project record holds, 404 for a
\* subdomain nobody holds; no awaiter is registered and the handler is done.
C20_NoTunnel(host) ==
    LET sd == extract_subdomain(host, DomainName)
    IN  /\ sd.kind # "root"
        /\ ~(sd.kind = "sub" /\ sd.name \in DOMAIN tunnels)

C20_Expected(host) ==
    LET sd == extract_subdomain(host, DomainName)
    IN  IF sd.kind = "invalid" THEN 404
        ELSE IF SubdomainTaken(projects, sd.name) THEN 503
        ELSE 404

C20_OutcomeFromHostAndStore ==
    [][ \A h \in Handlers, host \in Hosts, path \in HostPaths, rid \in Ids,
           dbFault \in LookupFaults :
          ( /\ C20_NoTunnel(host)
            /\ unified_handler(h, "ip1", host, "GET", path, rid, dbFault) )
             => /\ lastEvent'.kind = "response"
                /\ lastEvent'.status = C20_Expected(host)
                /\ pending_requests' = pending_requests
                /\ hs'[h].pc = "idle" ]_vars

\* a request for a host outside the configured domain was answered by the
\* Flask application
C20_Witness ==
    /\ lastEvent.kind = "response"
    /\ lastEvent.note = "flask_app"
    /\ lastEvent.status = 200
    /\ lastEvent.path = <<"/">>
    /\ extract_subdomain(lastEvent.host, DomainName).kind = "invalid"
\* C21: a malformed frame on a registered tunnel closes that tunnel, so its
\* subdomain leaves the registry, and every other tunnel stays registered.
C21_BadFrameClosesTunnel ==
    [][ \A c \in Conns :
          ( /\ lastEvent'.kind = "bad_frame"
            /\ lastEvent'.target = c
            /\ lastEvent' # lastEvent
            /\ conn[c].sub \in DOMAIN tunnels )
             => /\ conn[c].sub \notin DOMAIN tunnels'
                /\ \A s \in DOMAIN tunnels \ {conn[c].sub} :
                      s \in DOMAIN tunnels' /\ tunnels'[s] = tunnels[s] ]_vars

\* an undecodable frame has been read on a tunnel that is still registered,
\* next to a second registered tunnel
C21_Witness ==
    /\ lastEvent.kind = "bad_frame"
    /\ lastEvent.note = "undecodable"
    /\ \E c, d \in Conns :
          /\ c # d
          /\ lastEvent.target = c
          /\ conn[c].pc = "open" /\ conn[d].pc = "open"
          /\ conn[c].sub \in DOMAIN tunnels /\ tunnels[conn[c].sub] = c
          /\ conn[d].sub \in DOMAIN tunnels /\ tunnels[conn[d].sub] = d
\* C22: http_handler turns every internal fault into an HTTP response of its
\* own and lets no exception leave the handler, a store failure during the
\* project lookup for a missing tunnel included.
C22_NoExceptionEscapes ==
    lastEvent.kind = "response" => lastEvent.note # "unhandled"

\* the project lookup for a subdomain without tunnel has raised: the
\* exception left the handler before an awaiter was registered
C22_Witness ==
    /\ lastEvent.kind = "response"
    /\ lastEvent.note = "unhandled"
    /\ lastEvent.status = 500
    /\ DOMAIN pending_requests = {}
    /\ \A h \in Handlers : hs[h].pc = "idle"
\* C23: after the control connection of a registered tunnel was closed while
\* the project's process keeps running, the agent dials again and a tunnel
\* for the project is registered again.
C23_Dropped(p) ==
    /\ running_processes[p] = "alive"
    /\ tunnel_threads[p].c \in Conns
    /\ conn[tunnel_threads[p].c].pc = "closed"
    /\ conn[tunnel_threads[p].c].reply = "connected"

C23_Registered(p) ==
    \E s \in DOMAIN tunnel_to_project : tunnel_to_project[s] = p

C23_DialsAgain ==
    \A p \in AgentProjects :
        C23_Dropped(p) ~> (C23_Registered(p) \/ running_processes[p] # "alive")

\* the worker of a running project has ended after its registered tunnel was
\* closed, while a connection to dial with is still free
C23_Witness ==
    \E p \in AgentProjects :
        /\ C23_Dropped(p)
        /\ tunnel_threads[p].state = "done"
        /\ ~C23_Registered(p)
        /\ \E c \in Conns : conn[c].pc = "new"
\* ---------------------------------------------- the agent's main loop
\* the agent against a server that answers or fails each call as it likes
NextErrors ==
    \/ \E ok \in BOOLEAN : AgentConnect(ok)
    \/ \E due \in BOOLEAN, ok \in BOOLEAN : LoopHeartbeat(due, ok)
    \/ \E outcome \in PollOutcomes, n \in 0..MaxTodo : LoopPoll(outcome, n)
    \/ \E p \in AgentProjects, action \in {"start", "stop", "restart"},
          outcome \in {"ok", "exits_early"}, killOk \in BOOLEAN, reported \in BOOLEAN :
          LoopExecute(p, action, 3000, outcome, killOk, reported)
    \/ \E killOk \in BOOLEAN : LoopCheck(killOk)

SpecErrors == InitAgent /\ [][NextErrors]_vars

\* C24: every successful heartbeat, poll or completion report sets the
\* error counter to 0 and every failed one adds 1; the agent restarts itself
\* only at or above the threshold, with every child stopped first; and once
\* the counter is at the threshold the next thing that changes it is the
\* restart.
C24_CounterAndRestart ==
    [][ /\ (agent_loop.pc \in {"connect", "heartbeat"} /\ lastEvent' # lastEvent)
            => consecutive_errors' = Count(consecutive_errors,
                                           lastEvent'.note = "heartbeat_ok")
        /\ (agent_loop.pc = "poll" /\ agent_loop'.pc # "poll")
            => consecutive_errors' = Count(consecutive_errors,
                                           lastEvent'.note = "poll_ok")
        /\ (agent_loop.pc = "exec" /\ agent_loop'.pc = "exec"
             /\ agent_loop'.todo < agent_loop.todo)
            => consecutive_errors' = Count(consecutive_errors,
                                           lastEvent'.note = "report_ok")
        /\ (agent_loop.pc = "exec" /\ agent_loop'.pc = "connect")
            => /\ consecutive_errors >= MAX_CONSECUTIVE_ERRORS
               /\ lastEvent'.list = <<>>
        /\ consecutive_errors >= MAX_CONSECUTIVE_ERRORS
            => \/ consecutive_errors' >= MAX_CONSECUTIVE_ERRORS
               \/ (agent_loop.pc = "exec" /\ agent_loop'.pc = "connect") ]_vars

\* a failed heartbeat has brought the counter to the threshold while a child
\* runs, and the iteration goes on to its poll
C24_Witness ==
    /\ agent_loop.pc = "poll"
    /\ lastEvent.note = "heartbeat_failed"
    /\ consecutive_errors >= MAX_CONSECUTIVE_ERRORS
    /\ \E p \in AgentProjects : running_processes[p] = "alive"

\* C25: a successful start of a project with a port leaves a live tunnel
\* worker for the project, also when an earlier worker has ended; a failed
\* start starts no worker and registers no process.
C25_StartLeavesWorker ==
    [][ \A p \in AgentProjects :
          /\ ( /\ running_processes[p] # "alive"
               /\ running_processes'[p] = "alive"
               /\ lastEvent'.note = "start_ok"
               /\ lastEvent'.port # 0 )
                => tunnel_threads'[p].state \in {"started", "dialed"}
          /\ ( /\ lastEvent'.note = "start_failed"
               /\ lastEvent'.target = p
               /\ lastEvent' # lastEvent )
                => /\ tunnel_threads' = tunnel_threads
                   /\ running_processes' = running_processes ]_vars

\* a start with a port succeeded and found the entry of a worker in the
\* table; that worker has ended and the project has no tunnel
C25_Witness ==
    \E p \in AgentProjects :
        /\ lastEvent.note = "start_ok"
        /\ lastEvent.target = p
        /\ lastEvent.port # 0
        /\ lastEvent.list = <<"tunnel_already_running">>
        /\ running_processes[p] = "alive"
        /\ tunnel_threads[p].state = "done"
        /\ \A s \in DOMAIN tunnel_to_project : tunnel_to_project[s] # p
\* ------------------------------------------- the access request workflow
\* blocked requests of two clients to two projects are recorded, and an
\* operator approves, rejects and revokes as time passes
AccessTime == 2

\* the rows that get recorded: two clients of project 1, one of project 2
AccessKeys == {<<1, "ip1">>, <<1, "ip2">>, <<2, "ip1">>}

InitAccess == Init /\ impl = "twf" /\ api = "projects"

NextAccess ==
    \/ \E k \in AccessKeys : create_access_request(k[1], k[2], "GET", <<"/", "a">>)
    \/ \E i \in 1..MaxAccessReqs, duration \in ApproveDurations :
          approve_firewall_access(i, duration)
    \/ \E i \in 1..MaxAccessReqs : reject_firewall_access(i)
    \/ \E hasAccess \in BOOLEAN, revoke_all \in BOOLEAN,
          request_id \in 0..MaxAccessReqs, ip_address \in {"", "ip1"},
          storeFault \in BOOLEAN :
          revoke_approved_access(1, hasAccess, revoke_all, request_id, ip_address,
                                 storeFault)
    \/ TickUpTo(AccessTime)

SpecAccess == InitAccess /\ [][NextAccess]_vars

C26_Matches(i) ==
    /\ accessReqs[i].status = "approved"
    /\ CASE lastEvent'.note = "all" -> accessReqs[i].project_id = lastEvent'.project
         [] lastEvent'.note = "id"  -> i = lastEvent'.target
         [] lastEvent'.note = "ip"  -> /\ accessReqs[i].project_id = lastEvent'.project
                                       /\ accessReqs[i].ip_address = lastEvent'.ip
         [] OTHER -> FALSE

\* C26: a revoke that succeeds turns exactly the approved rows matching its
\* filter into revoked rows with approved_until = now and leaves every other
\* row as it was; and a revoked row gives no client a way past the firewall
\* from then on, whatever happens next.
C26_RevokeExactlyMatching ==
    [][ /\ ( /\ lastEvent'.kind = "revoke"
             /\ lastEvent'.status = 200
             /\ \/ lastEvent' # lastEvent
                \/ \E i \in 1..Len(accessReqs) :
                      /\ i <= Len(accessReqs')
                      /\ accessReqs[i].status # "revoked"
                      /\ accessReqs'[i].status = "revoked" )
            => /\ Len(accessReqs') = Len(accessReqs)
               /\ \A i \in 1..Len(accessReqs) :
                     IF C26_Matches(i)
                     THEN accessReqs'[i] = [accessReqs[i] EXCEPT !.status = "revoked",
                                                                 !.approved_until = now]
                     ELSE accessReqs'[i] = accessReqs[i]
        /\ \A i \in 1..Len(accessReqs) :
              accessReqs[i].status = "revoked"
              => ~is_ip_temporarily_approved(<<accessReqs'[i]>>, accessReqs'[i].project_id,
                                             accessReqs'[i].ip_address,
                                             accessReqs'[i].method, accessReqs'[i].path,
                                             now', FALSE) ]_vars

\* a revoke by ip has revoked one row and left an approved row of another
\* client in force
C26_Witness ==
    /\ lastEvent.kind = "revoke"
    /\ lastEvent.note = "ip"
    /\ lastEvent.status = 200
    /\ lastEvent.rule = 1
    /\ \E i, j \in 1..Len(accessReqs) :
          /\ accessReqs[i].status = "revoked"
          /\ accessReqs[i].ip_address = lastEvent.ip
          /\ accessReqs[i].approved_until = now
          /\ accessReqs[j].status = "approved"
          /\ accessReqs[j].ip_address # lastEvent.ip
          /\ accessReqs[j].approved_until > now

\* C27: a row in rejected or revoked status keeps its status and its
\* approved_until whatever operation is applied to it.
C27_TerminalStatesStay ==
    [][ \A i \in 1..Len(accessReqs) :
           accessReqs[i].status \in {"rejected", "revoked"}
           => /\ accessReqs'[i].status = accessReqs[i].status
              /\ accessReqs'[i].approved_until = accessReqs[i].approved_until ]_vars

\* a revoked row and a rejected row that had been approved before stand in
\* the table, where the operator's next call can name either
C27_Witness ==
    \E i, j \in 1..Len(accessReqs) :
        /\ accessReqs[i].status = "revoked"
        /\ accessReqs[j].status = "rejected"
        /\ accessReqs[j].approved_until > 0

\* --------------------------------------------- rule changes and the cache
\* an operator adds and deletes rules of project 1 up to ChangeTime while
\* both evaluators are asked about requests at any time
ChangeTime == 1
StaleTime == 5
StaleRuleIds == {1, 2}

InitStale == Init /\ impl = "twf" /\ api = "projects"

NextStale ==
    \/ \E r \in StaleRuleIds : now <= ChangeTime /\ add_firewall_rule(r)
    \/ \E r \in StaleRuleIds : now <= ChangeTime /\ delete_firewall_rule(r)
    \/ \E method \in Methods, path \in Paths : FirewallCheck(1, method, path)
    \/ \E method \in Methods, path \in Paths : AiohttpCheck(1, method, path)
    \/ TickUpTo(StaleTime)

SpecStale == InitStale /\ [][NextStale]_vars

C28_StoreRules(p) == {r \in fwRules : RuleCatalog[r].project_id = p}

\* C28: get_cached_rules returns only what the cache holds for the project,
\* stamped at most CACHE_EXPIRATION ago, and nothing when force_reload is
\* set; a rule change leaves the cache as it is; and once more than
\* CACHE_EXPIRATION has passed since the last change, every entry the cache
\* still serves equals the stored rules and every verdict is the one the
\* stored rules give.
C28_StaleAtMostTtl ==
    [][ /\ \A p \in Pids, force_reload \in BOOLEAN :
              get_cached_rules(fwCache, p, force_reload, now).found
              => /\ ~force_reload
                 /\ p \in DOMAIN fwCache
                 /\ now - fwCache[p].timestamp <= CACHE_EXPIRATION
                 /\ get_cached_rules(fwCache, p, force_reload, now).rules
                       = fwCache[p].rules
        /\ fwRules' # fwRules => fwCache' = fwCache
        /\ now > ChangeTime + CACHE_EXPIRATION
           => /\ \A p \in Pids :
                    get_cached_rules(fwCache, p, FALSE, now).found
                    => get_cached_rules(fwCache, p, FALSE, now).rules = C28_StoreRules(p)
              /\ ( /\ lastEvent'.kind = "verdict"
                   /\ (lastEvent' # lastEvent \/ fwCache' # fwCache) )
                  => lastEvent'.rule = FirstMatchingRule(C28_StoreRules(1),
                                                         lastEvent'.method,
                                                         lastEvent'.path) ]_vars

\* the rules were changed while the cache held the older set, and after the
\* entry expired the evaluator has loaded the stored rules and cited one
C28_Witness ==
    /\ now > ChangeTime + CACHE_EXPIRATION
    /\ 1 \in DOMAIN fwCache
    /\ fwCache[1].timestamp > ChangeTime + CACHE_EXPIRATION
    /\ fwCache[1].rules = C28_StoreRules(1)
    /\ fwCache[1].rules # {}
    /\ lastEvent.kind = "verdict"
    /\ lastEvent.rule \in fwCache[1].rules

\* ------------------------------------------ the rate table after the traffic
\* two clients send requests for a host nobody serves until LastArrival; then
\* only the clock and the background sweep run, and they do run
GcTime == 5

GcStart(h, ip, rid) ==
    /\ now <= LastArrival
    /\ HttpStart(h, ip, <<"x">>, "GET", <<"/">>, rid, "none", "none")

NextGc ==
    \/ \E h \in Handlers, ip \in Ips, rid \in Ids : GcStart(h, ip, rid)
    \/ Sweep
    \/ TickUpTo(GcTime)

SpecGc ==
    /\ Init
    /\ [][NextGc]_vars
    /\ WF_vars(Sweep)
    /\ WF_vars(TickUpTo(GcTime))

C29_InTable(ip) ==
    IF impl = "tunnels" THEN ip \in DOMAIN rate_limit_store
    ELSE ip \in DOMAIN rate_limits

\* C29: an address whose last request lies more than RATE_WINDOW back is
\* eventually gone from the rate-limit table.
C29_InactiveIpRemoved ==
    \A ip \in Ips :
        (C29_InTable(ip) /\ now > LastArrival + RATE_WINDOW) ~> ~C29_InTable(ip)

\* the sweep has run after a client's window was over and the client's entry
\* is still in the table
C29_Witness ==
    \E ip \in Ips :
        /\ C29_InTable(ip)
        /\ impl = "twf"
        /\ cleanupStarted
        /\ lastSweep > LastArrival + RATE_WINDOW
        /\ now > lastSweep

\* ------------------------------------------------- who gets which subdomain
\* two projects whose names normalise to the same text get their subdomains
\* from tunnel handshakes and from publication requests, which run in threads
\* of their own beside the edge
NameKeys == {"k1", "k2"}
NameIds == {"1", "2"}

NextNames ==
    \/ \E c \in Conns, project_id \in NameIds, api_key \in NameKeys :
          TunnelControl(c, project_id, api_key, "none")
    \/ \E c \in Conns : TunnelClose(c, FALSE)
    \/ \E c \in Conns, project_id \in NameIds, api_key \in NameKeys :
          TwfHandshake(c, project_id, api_key, "none")
    \/ \E c \in Conns : TwfRegister(c, TRUE)
    \/ \E c \in Conns : TwfTunnelClose(c)
    \/ \E p \in Pids, route \in PublishRoutes, rnd \in RandomSuffixes :
          PublishLookup(p, route, rnd)
    \/ \E p \in Pids : PublishCommit(p)
    \/ \E p \in Pids : DeleteProject(p)

SpecNames == Init /\ [][NextNames]_vars

\* C30: whenever a project is given a subdomain, it is the name
\* generate_subdomain yields for the table as it stands (the normalised
\* <name>-<user>, or that with the first free counter), a name no existing
\* project holds; and no two existing projects ever hold the same subdomain.
C30_UniqueSubdomains ==
    [][ /\ \A p \in Pids :
              ( /\ projects'[p].exists
                /\ projects'[p].subdomain # NoSub
                /\ projects'[p].subdomain # projects[p].subdomain )
              => /\ ~SubdomainTaken(projects, projects'[p].subdomain)
                 /\ projects'[p].subdomain
                       = generate_subdomain(projects, ProjectName[p], UserName[p])
        /\ \A p, q \in Pids :
              ( /\ p # q
                /\ projects'[p].exists
                /\ projects'[q].exists
                /\ projects'[p].subdomain # NoSub )
              => projects'[p].subdomain # projects'[q].subdomain ]_vars

\* a publication found its candidate held by the other project and stored
\* the candidate with a random suffix
C30_Witness ==
    \E p, q \in Pids :
        /\ p # q
        /\ projects[p].exists
        /\ projects[q].exists
        /\ projects[q].subdomain = PublishName(p)
        /\ \E rnd \in RandomSuffixes :
              projects[p].subdomain = PublishName(p) \o <<"-", rnd>>
        /\ lastEvent.note = "publish"
        /\ lastEvent.status = 200
        /\ lastEvent.target = p

\* ------------------------------- subdomain_handling.py, normalize_subdomain
MaxNameLen == 3
\* upper case, lower case, a digit, the hyphen, the space that becomes a
\* hyphen and a character outside [a-z0-9-]
NameAlphabet == {"A", "a", "1", "-", " ", "_"}

RECURSIVE TextsUpTo(_)
TextsUpTo(n) ==
    IF n = 0 THEN {<<>>}
    ELSE LET shorter == TextsUpTo(n - 1)
         IN  shorter \cup {Append(t, ch) : t \in shorter, ch \in NameAlphabet}

\* the character filter applied after the trimming instead of before it
NormalizeFilterLast(subdomain) ==
    KeepAllowed(StripHyphens(CollapseHyphens(ReplaceSpace(Lower(subdomain)))))

normalize_subdomain(subdomain) ==
    StripHyphens(CollapseHyphens(KeepAllowed(ReplaceSpace(Lower(subdomain)))))

InitNorm ==
    /\ InitRegistry /\ impl = "tunnels"
    /\ now = 0
    /\ pending_requests = EmptyMap
    /\ hs = [h \in Handlers |-> IdleHandler]
    /\ cleanupStarted = FALSE
    /\ lastSweep = 0
    /\ lastEvent \in {[NoEvent EXCEPT !.kind = "raw", !.host = t] : t \in TextsUpTo(MaxNameLen)}
    /\ InitRate /\ InitFirewall
    /\ api = "projects"
    /\ InitStore

Normalize ==
    /\ lastEvent.kind = "raw"
    /\ lastEvent' = [lastEvent EXCEPT !.kind = "normalized",
                                      !.shown = normalize_subdomain(lastEvent.host)]
    /\ UNCHANGED <<impl, regVars, now, pending_requests, hs, cleanupStarted, lastSweep,
                   rateVars, fwVars, ctlVars>>

NormalizeAgain ==
    /\ lastEvent.kind = "normalized"
    /\ lastEvent' = [lastEvent EXCEPT !.kind = "renormalized",
                                      !.list = normalize_subdomain(lastEvent.shown)]
    /\ UNCHANGED <<impl, regVars, now, pending_requests, hs, cleanupStarted, lastSweep,
                   rateVars, fwVars, ctlVars>>

NextNorm ==
    \/ Normalize
    \/ NormalizeAgain

SpecNorm == InitNorm /\ [][NextNorm]_vars

\* C31: normalising a normalised subdomain gives it back unchanged, for
\* every input text.
C31_NormalizeIdempotent ==
    lastEvent.kind = "renormalized" => lastEvent.list = lastEvent.shown

\* an input that normalisation changes by every one of its steps has been
\* normalised twice
C31_Witness ==
    /\ lastEvent.kind = "renormalized"
    /\ lastEvent.host = <<" ", "A", "_">>
    /\ lastEvent.shown = <<"a">>

\* ------------------------------------- http_handler, the http_request frame
MaxHeaders == 2
\* header names as a client may spell them, and str.lower of each
HeaderLower ==
    [n \in {"Host", "Connection", "Accept", "accept"} |->
        CASE n = "Host" -> "host"
          [] n = "Connection" -> "connection"
          [] OTHER -> "accept"]
HeaderNames == DOMAIN HeaderLower
HeaderValues == {"v1", "v2"}
HeaderItems == [name : HeaderNames, value : HeaderValues]

\* request.headers.items(): the header lines of the request, in order
RECURSIVE HeaderLists(_)
HeaderLists(n) ==
    IF n = 0 THEN {<<>>}
    ELSE LET shorter == HeaderLists(n - 1)
         IN  shorter \cup {Append(l, item) : l \in shorter, item \in HeaderItems}

\* result[k] = v on a dict, which keeps its keys in the order they came
DictSet(d, k, v) ==
    IF \E i \in 1..Len(d) : d[i].name = k
    THEN [i \in 1..Len(d) |-> IF d[i].name = k THEN [name |-> k, value |-> v] ELSE d[i]]
    ELSE Append(d, [name |-> k, value |-> v])

HopByHop == {"connection", "keep-alive", "proxy-authenticate", "proxy-authorization",
             "te", "trailers", "transfer-encoding", "upgrade"}

\* tunnels.py: every header goes into the dict under the name it came with
RECURSIVE tunnels_normalize_incoming_headers(_, _)
tunnels_normalize_incoming_headers(hdrs, result) ==
    IF hdrs = <<>> THEN result
    ELSE tunnels_normalize_incoming_headers(
             Tail(hdrs), DictSet(result, hdrs[1].name, hdrs[1].value))

\* tunnels_with_firewall.py: the name is lowercased, hop-by-hop headers and
\* host are skipped
RECURSIVE twf_normalize_incoming_headers(_, _)
twf_normalize_incoming_headers(hdrs, result) ==
    IF hdrs = <<>> THEN result
    ELSE LET k == HeaderLower[hdrs[1].name]
         IN  twf_normalize_incoming_headers(
                 Tail(hdrs),
                 IF k \in HopByHop \/ k = "host" THEN result
                 ELSE DictSet(result, k, hdrs[1].value))

normalize_incoming_headers(hdrs) ==
    IF impl = "tunnels" THEN tunnels_normalize_incoming_headers(hdrs, <<>>)
    ELSE twf_normalize_incoming_headers(hdrs, <<>>)

\* HttpSend for a request whose header lines are hdrs, when the write to the
\* tunnel succeeds: the frame that went out is what the agent observes
HttpSendFrame(h, hdrs) ==
    /\ hs[h].pc = "reading"
    /\ conn[hs[h].ws].pc = "open"
    /\ hs' = [hs EXCEPT ![h].pc = "waiting", ![h].waitStart = now]
    /\ lastEvent' = [NoEvent EXCEPT !.kind = "http_request", !.rid = hs[h].rid,
                                    !.method = hs[h].method, !.path = hs[h].path,
                                    !.list = hdrs,
                                    !.shown = normalize_incoming_headers(hdrs)]
    /\ UNCHANGED <<impl, ctlVars, regVars, now, pending_requests, cleanupStarted,
                   lastSweep, rateVars, fwVars>>

NextHeaders ==
    \/ \E c \in ProxyConns, project_id \in GoodIds, api_key \in GoodKeys :
          TunnelControl(c, project_id, api_key, "none")
    \/ \E c \in ProxyConns, project_id \in GoodIds, api_key \in GoodKeys :
          TwfHandshake(c, project_id, api_key, "none")
    \/ \E c \in ProxyConns : TwfRegister(c, TRUE)
    \/ \E h \in Handlers, rid \in Ids :
          HttpStart(h, "ip1", <<"a", "-", "u", ".", "x">>, "GET", <<"/">>, rid,
                    "none", "none")
    \/ \E h \in Handlers, hdrs \in HeaderLists(MaxHeaders) : HttpSendFrame(h, hdrs)
    \/ \E c \in ProxyConns, request_id \in Ids : TunnelMessage(c, request_id, 200)
    \/ \E h \in Handlers : HttpWake(h)

SpecHeaders == Init /\ [][NextHeaders]_vars

C32_Stripped(name) == HeaderLower[name] \in HopByHop \cup {"host"}

C32_NoneStripped ==
    lastEvent.kind = "http_request" =>
        \A i \in 1..Len(lastEvent.shown) : ~C32_Stripped(lastEvent.shown[i].name)

C32_OthersCarried ==
    lastEvent.kind = "http_request" =>
        \A i \in 1..Len(lastEvent.list) :
            ~C32_Stripped(lastEvent.list[i].name) =>
                \E j \in 1..Len(lastEvent.shown) :
                    /\ HeaderLower[lastEvent.shown[j].name] = HeaderLower[lastEvent.list[i].name]
                    /\ lastEvent.shown[j].value = lastEvent.list[i].value

\* C32: an http_request frame carries none of the hop-by-hop headers and no
\* host header, whatever their case, and carries every other header of
\* the request with its value.
C32_HopByHopStripped ==
    /\ C32_NoneStripped
    /\ C32_OthersCarried

\* a frame went out for a request that had a hop-by-hop header and another
C32_Witness ==
    /\ lastEvent.kind = "http_request"
    /\ lastEvent.list = << [name |-> "Connection", value |-> "v1"],
                           [name |-> "Accept", value |-> "v2"] >>

\* ------------------------------------------------------- deleting an agent
C33_OwnsRunning(a) ==
    \E p \in Pids : /\ projects[p].exists
                    /\ projects[p].agent_id = a
                    /\ projects[p].status = "running"

SWEEP_INTERVAL == 10
SweepTime == 11

\* requests arrive until LastArrival and their bodies may never come; the
\* clock runs past the first time a sweep is owed
NextSweep ==
    \/ \E c \in ProxyConns, project_id \in GoodIds, api_key \in GoodKeys :
          TunnelControl(c, project_id, api_key, "none")
    \/ \E c \in ProxyConns, project_id \in GoodIds, api_key \in GoodKeys :
          TwfHandshake(c, project_id, api_key, "none")
    \/ \E c \in ProxyConns : TwfRegister(c, TRUE)
    \/ \E h \in Handlers, rid \in Ids : QuietStart(h, rid)
    \/ \E h \in Handlers : HttpSend(h, "sent")
    \/ \E h \in Handlers : HttpTimeout(h)
    \/ Sweep
    \/ TickUpTo(SweepTime)

SpecSweep == Init /\ [][NextSweep]_vars

\* a step in which the sweeper ran: cleanup_task woke and stamped its run
C34_SweepRan == cleanupStarted /\ lastSweep' # lastSweep

C34_Old(r) == now - pending_requests[r].timestamp > 2 * REQUEST_TIMEOUT

\* C34: for the whole life of the edge no more than five minutes pass
\* without a run of the sweeper, a run comes five minutes after the one
\* before it, and a run removes exactly the pending entries that are older
\* than twice REQUEST_TIMEOUT.
C34_SweepsEveryFiveMinutes ==
    [][ /\ now' - lastSweep' <= SWEEP_INTERVAL
        /\ C34_SweepRan =>
              /\ now - lastSweep = SWEEP_INTERVAL
              /\ DOMAIN pending_requests' =
                    {r \in DOMAIN pending_requests : ~C34_Old(r)}
      ]_vars

\* the sweeper has just run and took the entry of a request whose body is
\* still being read
C34_Witness ==
    /\ cleanupStarted
    /\ lastSweep = now
    /\ now > LastArrival
    /\ \E h \in Handlers : hs[h].pc = "reading" /\ hs[h].rid \notin DOMAIN pending_requests

\* ------------------- client.py, WebSocketTunnelThread._handle_requests
\* what the local call to http://localhost:<port> gives: a response with a
\* status, or an exception (refused, timed out, reset)
Upstreams == {200, 404, -1}

\* everything the worker's request loop leaves alone
workerLeaves == <<impl, regVars, proxyVars, rateVars, fwVars, api, agents, commands,
                  runtime, client, agentVars, publishing>>

WorkerUp(p) ==
    /\ tunnel_threads[p].state = "dialed"
    /\ conn[tunnel_threads[p].c].pc = "open"

\* mutant: a failed local call is only logged
ReplyOnSuccessOnly(request_id, upstream) ==
    IF upstream = -1 THEN <<>>
    ELSE << [request_id |-> request_id, status |-> upstream] >>

\* _forward_request: the frame it writes, response_data of the try block or
\* the one _send_error_response builds
ForwardReply(request_id, upstream) ==
    << [request_id |-> request_id, status |-> IF upstream = -1 THEN 500 ELSE upstream] >>

\* ws.receive() returns an http_request frame; the edge names every request
\* with a fresh uuid
WorkerReceive(p, request_id) ==
    /\ WorkerUp(p)
    /\ forwarding.state = "idle"
    /\ \A i \in 1..Len(forwarding.got) : forwarding.got[i] # request_id
    /\ forwarding' = [forwarding EXCEPT !.state = "forwarding", !.rid = request_id,
                                        !.got = Append(@, request_id)]
    /\ UNCHANGED workerLeaves

\* the local call has ended and _forward_request writes its frame; on a
\* connection that has gone ws.send_str raises, _send_error_response
\* swallows the second failure and nothing is sent
WorkerForward(p, upstream) ==
    /\ forwarding.state = "forwarding"
    /\ tunnel_threads[p].state = "dialed"
    /\ forwarding' = [forwarding EXCEPT
                         !.state = "idle", !.rid = None,
                         !.sent = IF WorkerUp(p)
                                  THEN @ \o ForwardReply(forwarding.rid, upstream)
                                  ELSE @]
    /\ UNCHANGED workerLeaves

\* stop() stopped the worker's event loop: the call in progress is cancelled
WorkerCancelled(p) ==
    /\ forwarding.state = "forwarding"
    /\ tunnel_threads[p].state # "dialed"
    /\ forwarding' = [forwarding EXCEPT !.state = "idle", !.rid = None]
    /\ UNCHANGED workerLeaves

NextForward ==
    \/ \E p \in AgentProjects : AgentStart(p, 3000, "ok")
    \/ \E p \in AgentProjects : AgentStop(p, TRUE)
    \/ \E p \in AgentProjects, c \in ProxyConns : ThreadDial(p, c)
    \/ \E p \in AgentProjects : ThreadHandshake(p)
    \/ \E c \in ProxyConns : TunnelClose(c, FALSE)
    \/ \E p \in AgentProjects, request_id \in Ids : WorkerReceive(p, request_id)
    \/ \E p \in AgentProjects, upstream \in Upstreams : WorkerForward(p, upstream)
    \/ \E p \in AgentProjects : WorkerCancelled(p)

\* the worker's event loop runs the call it started to its end
SpecForward ==
    /\ InitAgent
    /\ [][NextForward]_vars
    /\ WF_vars(\E p \in AgentProjects, upstream \in Upstreams : WorkerForward(p, upstream))
    /\ WF_vars(\E p \in AgentProjects : WorkerCancelled(p))

C35_Received(request_id) ==
    \E i \in 1..Len(forwarding.got) : forwarding.got[i] = request_id

C35_Replies(request_id) ==
    Len(SelectSeq(forwarding.sent, LAMBDA f : f.request_id = request_id))

\* no response without its request, none twice, and a status that is either
\* the upstream's or 500
C35_NoStrayReply ==
    /\ \A request_id \in Ids : C35_Replies(request_id) <= 1
    /\ \A i \in 1..Len(forwarding.sent) :
          /\ C35_Received(forwarding.sent[i].request_id)
          /\ forwarding.sent[i].status \in {200, 404, 500}

\* C35 (as claimed): every http_request frame the worker receives is
\* answered with exactly one http_response frame of the same request_id,
\* and no response names a request_id the worker did not receive.
C35_OneReplyPerRequest ==
    /\ [] C35_NoStrayReply
    /\ \A request_id \in Ids :
          C35_Received(request_id) ~> (C35_Replies(request_id) = 1)

\* C35 (amended): no frame is answered twice and no response names a
\* request_id the worker did not receive; a frame is answered once unless
\* the connection ended or the worker was stopped while its local call was
\* in progress.
C35_OneReplyWhileUp ==
    /\ [] C35_NoStrayReply
    /\ \A request_id \in Ids :
          (C35_Received(request_id) /\ forwarding.rid = request_id)
             ~> \/ C35_Replies(request_id) = 1
                \/ \E p \in AgentProjects : ~WorkerUp(p)
    /\ [][ \A p \in AgentProjects :
             (forwarding.state = "forwarding" /\ forwarding'.state = "idle" /\ WorkerUp(p))
                => Len(SelectSeq(forwarding'.sent,
                                 LAMBDA f : f.request_id = forwarding.rid)) = 1 ]_vars

\* the worker answered a request whose local call failed and is forwarding
\* the next one
C35_Witness ==
    /\ forwarding.state = "forwarding"
    /\ forwarding.rid = "r2"
    /\ forwarding.sent = << [request_id |-> "r1", status |-> 500] >>

\* ------------------------------------------------- two tunnels, two agents
\* connection 1 is agent a1 with project 1, connection 2 is agent a2 with
\* project 2; public requests go to either subdomain; only the agent of
\* connection 2 sends frames, with any request id it likes
CrossHosts == { <<"a", "-", "u", ".", "x">>, <<"a", "-", "u", "-", "1", ".", "x">> }
CrossId(c) == IF c = 1 THEN "1" ELSE "2"
CrossKey(c) == IF c = 1 THEN "k1" ELSE "k2"
FramingConn == 2

NextCross ==
    \/ \E c \in Conns : TunnelControl(c, CrossId(c), CrossKey(c), "none")
    \/ \E c \in Conns : TwfHandshake(c, CrossId(c), CrossKey(c), "none")
    \/ \E c \in Conns : TwfRegister(c, TRUE)
    \/ \E h \in Handlers, host \in CrossHosts, rid \in Ids :
          HttpStart(h, "ip1", host, "GET", <<"/">>, rid, "none", "none")
    \/ \E h \in Handlers : HttpSend(h, "sent")
    \/ \E request_id \in Ids : TunnelMessage(FramingConn, request_id, 200)
    \/ \E h \in Handlers : HttpWake(h)

SpecCross == Init /\ [][NextCross]_vars

\* the step stored a response frame in the awaiter of request r
C36_Stored(r) ==
    /\ r \in DOMAIN pending_requests
    /\ r \in DOMAIN pending_requests'
    /\ pending_requests'[r].response # pending_requests[r].response

\* C36: a response frame is stored in an awaiter, and wakes its handler,
\* only when it arrived on the connection the handler sent the request to.
C36_ResponseFromOwnTunnel ==
    [][ \A r \in Ids :
          C36_Stored(r) => hs[pending_requests[r].event].ws = FramingConn ]_vars

\* a handler that sent its request to connection 1 has been woken with a
\* response stored under its id, while connection 1 is open and only the
\* agent of connection 2 has sent frames
C36_Witness ==
    /\ conn[1].pc = "open" /\ conn[FramingConn].pc = "open"
    /\ \E h \in Handlers :
          /\ hs[h].pc = "waiting"
          /\ hs[h].ws = 1
          /\ hs[h].event
          /\ pending_requests[hs[h].rid].response.status = 200

\* ------------------------------------------- the sweeper and the handlers
\* the handler that registered request r and has not returned
C37_Owner(r) == {h \in Handlers : hs[h].pc # "idle" /\ hs[h].rid = r}

\* C37: an entry leaves pending_requests only in the step in which the
\* handler that registered it returns, so the sweeper takes no entry of a
\* handler that is still running and a handler that was woken finds its
\* entry.
C37_SweeperSparesLiveHandlers ==
    [][ \A r \in Ids :
          (r \in DOMAIN pending_requests /\ r \notin DOMAIN pending_requests')
             => \E h \in C37_Owner(r) : hs'[h].pc = "idle" ]_vars

\* a response was stored and the handler's event set, and the entry is gone
\* before the handler has read it
C37_Witness ==
    \E h \in Handlers :
        /\ hs[h].pc = "waiting"
        /\ hs[h].event
        /\ hs[h].rid \notin DOMAIN pending_requests

\* ------------------------------------------------------ the response slot
\* C38: once a response frame is stored in the awaiter of a request id, no
\* step replaces it: the awaiter keeps the first frame for as long as it
\* exists, and that frame is the one the handler reads.
C38_SlotWrittenOnce ==
    [][ \A r \in Ids :
          ( /\ r \in DOMAIN pending_requests
            /\ pending_requests[r].response # NoResponse
            /\ r \in DOMAIN pending_requests' )
             => pending_requests'[r].response = pending_requests[r].response ]_vars

\* a first frame is stored and its handler is signalled but has not read it
\* yet, on a connection that can deliver another frame
C38_Witness ==
    \E h \in Handlers :
        /\ hs[h].pc = "waiting"
        /\ hs[h].event
        /\ hs[h].rid \in DOMAIN pending_requests
        /\ pending_requests[hs[h].rid].response = [request_id |-> hs[h].rid, status |-> -1]
        /\ conn[hs[h].ws].pc = "open"

\* ------------------------------------------------------- the two registries
\* C39: in every state tunnels and tunnel_to_project have the same
\* subdomains as keys, and the project recorded for a subdomain is the one
\* of the connection registered under it.
C39_SameKeys ==
    /\ DOMAIN tunnels = DOMAIN tunnel_to_project
    /\ \A sub \in DOMAIN tunnels : tunnel_to_project[sub] = conn[tunnels[sub]].pid

\* one tunnel has been registered and closed again while another is
\* registered
C39_Witness ==
    \E c1, c2 \in Conns :
        /\ conn[c1].pc = "closed" /\ conn[c1].reply = "connected"
        /\ conn[c2].pc = "open"
        /\ conn[c2].sub \in DOMAIN tunnels
        /\ conn[c1].sub \notin DOMAIN tunnels

\* ------------------------------------------------ every request is answered
\* requests arrive until LastArrival and their bodies are read by SendBy; the
\* tunnel answers, stays silent, closes or is swept; the event loop runs
\* every handler that can go on, every timer and the sweeper
SendBy == 3
AnswerTime == 4

AnswerSend(h, outcome) ==
    /\ now <= SendBy
    /\ HttpSend(h, outcome)

NextAnswer ==
    \/ \E c \in ProxyConns, project_id \in GoodIds, api_key \in GoodKeys :
          TunnelControl(c, project_id, api_key, "none")
    \/ \E c \in ProxyConns : TunnelClose(c, FALSE)
    \/ \E c \in ProxyConns, project_id \in GoodIds, api_key \in GoodKeys :
          TwfHandshake(c, project_id, api_key, "none")
    \/ \E c \in ProxyConns : TwfRegister(c, TRUE)
    \/ \E c \in ProxyConns : TwfTunnelClose(c)
    \/ \E h \in Handlers, rid \in Ids : QuietStart(h, rid)
    \/ \E h \in Handlers, outcome \in SendOutcomes : AnswerSend(h, outcome)
    \/ \E c \in ProxyConns, request_id \in Ids : TunnelMessage(c, request_id, 200)
    \/ \E h \in Handlers : HttpWake(h)
    \/ \E h \in Handlers : HttpTimeout(h)
    \/ Sweep
    \/ TickUpTo(AnswerTime)

SpecAnswer ==
    /\ Init
    /\ [][NextAnswer]_vars
    /\ \A h \in Handlers : WF_vars(HttpWake(h))
    /\ \A h \in Handlers : WF_vars(HttpTimeout(h))
    /\ WF_vars(Sweep)
    /\ WF_vars(TickUpTo(AnswerTime))

\* C40: a handler that has read the body and sent the frame returns, with
\* one response, and no later than REQUEST_TIMEOUT after the send, whether
\* the tunnel answers, stays silent, closes or loses its registration; a
\* handler that returns at all returns with one response.
C40_EveryRequestAnswered ==
    /\ \A h \in Handlers : (hs[h].pc = "waiting") ~> (hs[h].pc = "idle")
    /\ [] \A h \in Handlers :
            hs[h].pc = "waiting" => now - hs[h].waitStart <= REQUEST_TIMEOUT
    /\ [][ \A h \in Handlers :
             (hs[h].pc # "idle" /\ hs'[h].pc = "idle")
                => /\ lastEvent'.kind = "response"
                   /\ lastEvent'.status \in {200, 502, 504}
                   /\ hs[h].rid \notin DOMAIN pending_requests' ]_vars

\* a request was answered 504 at its deadline after its tunnel had closed
\* and lost its registration
C40_Witness ==
    /\ lastEvent.kind = "response"
    /\ lastEvent.note = "tunnel_timeout"
    /\ tunnels = EmptyMap
    /\ \E c \in ProxyConns : conn[c].pc = "closed" /\ conn[c].reply = "connected"
    /\ \A h \in Handlers : hs[h].pc = "idle"

====
